---- MODULE Spec2Model ----
(***************************************************************************)
(* Model of the web-service repository: the in-memory CommentStore         *)
(* (internal/storage/comments.go), its sync.RWMutex discipline, the auth   *)
(* and CORS middleware (internal/api/middleware.go) and the comment        *)
(* handlers (internal/api/handlers.go), the token service                   *)
(* (internal/auth/jwt.go), the configuration (internal/config/config.go)   *)
(* and server.Run (internal/server/server.go).                             *)
(*                                                                         *)
(* Eleven specifications share the operators:                              *)
(*   Spec      store methods called one after another (each method is one  *)
(*             action: the method runs whole under the store's lock);      *)
(*   SpecConc  goroutines calling store methods concurrently, one step per *)
(*             lock operation and per map mutation;                        *)
(*   SpecCaller a caller that keeps and changes what the store returned,   *)
(*             while the store is written by others;                       *)
(*   SpecFair  the goroutines of SpecConc calling again and again, under   *)
(*             fair scheduling;                                            *)
(*   SpecValid createCommentRequest.Valid applied to decoded requests;     *)
(*   SpecRun   server.Run from its start to its return, with the goroutine *)
(*             that serves;                                                *)
(*   SpecServe the same under fair scheduling;                             *)
(*   SpecToken calls of the token service on tokens generated and altered; *)
(*   SpecGate  HTTP requests of every kind that one client sends one after *)
(*             another to the chain NewServer builds: one step for the     *)
(*             CORS and auth middleware, one per store call of a handler;  *)
(*   SpecLogin a client that logs in and uses the token it was given;      *)
(*   SpecHTTP  concurrent requests of authenticated users, in the same     *)
(*             steps.                                                      *)
(***************************************************************************)
EXTENDS Integers, FiniteSets, Sequences, TLC

\* ---------------------------------------------------------------- bounds
\* Number of identifiers uuid.New() can hand out in one execution.
MaxIDs == 2
\* Last instant of the clock read by time.Now().
MaxTime == 1

IDs == 1..MaxIDs
\* The goroutines that call the store at the same time.
Procs == {1, 2}
Times == 0..MaxTime
\* Owner identities ("" is the identity UserIDFromContext yields when none is set).
Users == {"A", "B"}
\* Durations passed to DeleteOlderThan.
Ages == {0, 1}

\* A storage.Comment value.  ID 0 stands for the empty string.
Comment(id, content, author, createdAt, userID) ==
    [ID |-> id, Content |-> content, Author |-> author,
     CreatedAt |-> createdAt, UserID |-> userID]

\* The zero value Comment{} returned beside an error.
ZeroComment == Comment(0, "", "", 0, "")

\* Drafts handed to Create and Update.  They carry their own ID, CreatedAt and
\* UserID, which Create and Update overwrite.
Drafts ==
    { Comment(0, "c1", "a1", 0, "A"),
      Comment(1, "c2", "a2", MaxTime, "B") }

\* Error values.
ErrNil == "nil"
ErrNotFound == "comment not found"
ErrCanceled == "context canceled"

VARIABLES
    comments,   \* CommentStore.comments: map from ID to Comment
    issued,     \* identifiers uuid.New() has produced so far
    now,        \* the clock time.Now() reads
    last,       \* Spec: the last store call, its arguments and what it returned;
                \* SpecCaller: what the caller holds of its last call;
                \* SpecToken: the token held and the last call of the token service;
                \* SpecValid: the request validated and the problems returned;
                \* SpecLogin: the token of the client's last successful login;
                \* SpecRun: where server.Run is and what it has made
    mu,         \* SpecConc: CommentStore.mu
    procs,      \* SpecConc: the goroutines calling store methods
    stable,     \* SpecConc: the map as the last completed write left it
    reqs        \* SpecGate, SpecHTTP: the requests in flight

vars == <<comments, issued, now, last, mu, procs, stable, reqs>>

\* -------------------------------------------------------- store operators
\* util.GenerateID: a fresh random UUID, base64 encoded.  The outcomes are the
\* identifiers not produced before (a 122-bit random value does not repeat).
GenerateIDAny(iss) == IDs
GenerateID(iss) == IDs \ iss

\* s.comments[id] = c
MapStore(cs, id, c) ==
    [k \in (DOMAIN cs) \cup {id} |-> IF k = id THEN c ELSE cs[k]]

\* delete(s.comments, id)
MapDelete(cs, id) == [k \in (DOMAIN cs) \ {id} |-> cs[k]]

\* The select on ctx.Done() at the head of every method.
CtxDoneAlways(cancelled) == TRUE
CtxDoneNever(cancelled) == FALSE
CtxDone(cancelled) == cancelled

\* Create, lines 46-49: stamp the draft and insert it.
CreateRecordKeepDraft(c, id, t) == [c EXCEPT !.ID = id]
CreateRecordNoID(c, id, t) == [c EXCEPT !.CreatedAt = t]
CreateRecord(c, id, t) == [c EXCEPT !.ID = id, !.CreatedAt = t]

\* Update, lines 120-122: pin the identity-bearing fields to the stored ones.
UpdateRecordTrustDraft(existing, c) == [c EXCEPT !.ID = existing.ID]
UpdateRecordKeepAuthor(existing, c) ==
    [c EXCEPT !.ID = existing.ID, !.CreatedAt = existing.CreatedAt,
              !.UserID = existing.UserID, !.Author = existing.Author]
UpdateRecord(existing, c) ==
    [c EXCEPT !.ID = existing.ID, !.CreatedAt = existing.CreatedAt,
              !.UserID = existing.UserID]

\* All orders in which ranging over a map can visit the records of keys S.
RECURSIVE Orders(_, _)
Orders(cs, S) ==
    IF S = {} THEN { <<>> }
    ELSE UNION { { <<cs[k]>> \o rest : rest \in Orders(cs, S \ {k}) } : k \in S }

\* List, lines 62-66: the records of the map in some order.
ListResultsPadded(cs) ==
    { [i \in 1..Cardinality(DOMAIN cs) |-> ZeroComment] \o l :
        l \in Orders(cs, DOMAIN cs) }
ListResults(cs) == Orders(cs, DOMAIN cs)

\* ListByUser, lines 140-146.
ListByUserResultsAll(cs, userID) == Orders(cs, DOMAIN cs)
ListByUserResults(cs, userID) ==
    Orders(cs, {k \in DOMAIN cs : cs[k].UserID = userID})

\* DeleteByUser, lines 159-163: the keys the loop deletes.
ByUserKeys(cs, userID) == {k \in DOMAIN cs : cs[k].UserID = userID}

\* DeleteOlderThan, lines 178-183: cutoff = now - age, CreatedAt.Before(cutoff).
OlderKeysInclusive(cs, t, age) == {k \in DOMAIN cs : cs[k].CreatedAt <= t - age}
OlderKeys(cs, t, age) == {k \in DOMAIN cs : cs[k].CreatedAt < t - age}

\* The map without the keys in S.
MapWithout(cs, S) == [k \in (DOMAIN cs) \ S |-> cs[k]]

\* Count, line 198.
CountOf(cs) == Cardinality(DOMAIN cs)

\* The empty map of NewCommentStore.
EmptyMap == [k \in {} |-> ZeroComment]

\* Get, lines 79-83.
GetOpZero(cs, id) ==
    IF id \in DOMAIN cs THEN [err |-> ErrNil, val |-> ZeroComment]
    ELSE [err |-> ErrNotFound, val |-> ZeroComment]
GetOp(cs, id) ==
    IF id \in DOMAIN cs THEN [err |-> ErrNil, val |-> cs[id]]
    ELSE [err |-> ErrNotFound, val |-> ZeroComment]

\* Delete, lines 96-101.
DeleteOpSilent(cs, id) == [cs |-> MapDelete(cs, id), err |-> ErrNil]
DeleteOp(cs, id) ==
    IF id \in DOMAIN cs THEN [cs |-> MapDelete(cs, id), err |-> ErrNil]
    ELSE [cs |-> cs, err |-> ErrNotFound]

\* Update, lines 114-125.
UpdateOpUpsert(cs, id, c) ==
    IF id \in DOMAIN cs
    THEN [cs |-> MapStore(cs, id, UpdateRecord(cs[id], c)), err |-> ErrNil,
          val |-> UpdateRecord(cs[id], c)]
    ELSE [cs |-> MapStore(cs, id, [c EXCEPT !.ID = id]), err |-> ErrNotFound,
          val |-> ZeroComment]
UpdateOp(cs, id, c) ==
    IF id \in DOMAIN cs
    THEN [cs |-> MapStore(cs, id, UpdateRecord(cs[id], c)), err |-> ErrNil,
          val |-> UpdateRecord(cs[id], c)]
    ELSE [cs |-> cs, err |-> ErrNotFound, val |-> ZeroComment]

\* ------------------------------------------------ Spec: sequential calls
\* What a caller sees of one store call: the method, its arguments, and the
\* values it returned (val: a Comment, list: a slice, n: an int).  turn
\* alternates from one call to the next, so that two equal calls in a row are
\* two calls.  creates and removed are the history of the calls so far: how
\* many Creates returned without error, and how many records the deleting
\* methods removed.
CallRecord(turn, op, id, draft, userID, age, cancelled, err, val, list, n, creates, removed) ==
    [turn |-> turn, op |-> op, id |-> id, draft |-> draft, userID |-> userID,
     age |-> age, cancelled |-> cancelled, err |-> err, val |-> val,
     list |-> list, n |-> n, creates |-> creates, removed |-> removed]

\* The records a call that returned err removes from the map cs at time t:
\* one for a Delete that returned no error (line 100), one for each iteration
\* of the loops of DeleteByUser and DeleteOlderThan that deletes (lines 161,
\* 181).
Removals(op, userID, age, err, cs, t) ==
    IF err # ErrNil THEN 0
    ELSE IF op = "Delete" THEN 1
    ELSE IF op = "DeleteByUser" THEN Cardinality(ByUserKeys(cs, userID))
    ELSE IF op = "DeleteOlderThan" THEN Cardinality(OlderKeys(cs, t, age))
    ELSE 0

Call(op, id, draft, userID, age, cancelled, err, val, list, n) ==
    CallRecord(1 - last.turn, op, id, draft, userID, age, cancelled, err, val,
               list, n,
               last.creates + (IF op = "Create" /\ err = ErrNil THEN 1 ELSE 0),
               last.removed + Removals(op, userID, age, err, comments, now))

NoCall ==
    CallRecord(0, "none", 0, ZeroComment, "", 0, FALSE, ErrNil, ZeroComment, <<>>,
               0, 0, 0)

\* NewCommentStore and the clock at start.
StoreInit ==
    /\ comments = EmptyMap
    /\ issued = {}
    /\ now = 0

\* The clock advances.
Tick ==
    /\ now < MaxTime
    /\ now' = now + 1
    /\ UNCHANGED <<comments, issued, last, mu, procs, stable, reqs>>

Create(c, cancelled) ==
    /\ IF CtxDone(cancelled)
       THEN /\ last' = Call("Create", 0, c, "", 0, cancelled, ErrCanceled,
                            ZeroComment, <<>>, 0)
            /\ UNCHANGED <<comments, issued>>
       ELSE \E id \in GenerateID(issued) :
            /\ comments' = MapStore(comments, id, CreateRecord(c, id, now))
            /\ issued' = issued \cup {id}
            /\ last' = Call("Create", 0, c, "", 0, cancelled, ErrNil,
                            CreateRecord(c, id, now), <<>>, 0)
    /\ UNCHANGED <<now, mu, procs, stable, reqs>>

List(cancelled) ==
    /\ IF CtxDone(cancelled)
       THEN last' = Call("List", 0, ZeroComment, "", 0, cancelled, ErrCanceled,
                         ZeroComment, <<>>, 0)
       ELSE \E l \in ListResults(comments) :
            last' = Call("List", 0, ZeroComment, "", 0, cancelled, ErrNil,
                         ZeroComment, l, 0)
    /\ UNCHANGED <<comments, issued, now, mu, procs, stable, reqs>>

Get(id, cancelled) ==
    /\ IF CtxDone(cancelled)
       THEN last' = Call("Get", id, ZeroComment, "", 0, cancelled, ErrCanceled,
                         ZeroComment, <<>>, 0)
       ELSE last' = Call("Get", id, ZeroComment, "", 0, cancelled,
                         GetOp(comments, id).err, GetOp(comments, id).val, <<>>, 0)
    /\ UNCHANGED <<comments, issued, now, mu, procs, stable, reqs>>

Delete(id, cancelled) ==
    /\ IF CtxDone(cancelled)
       THEN /\ last' = Call("Delete", id, ZeroComment, "", 0, cancelled,
                            ErrCanceled, ZeroComment, <<>>, 0)
            /\ UNCHANGED comments
       ELSE /\ comments' = DeleteOp(comments, id).cs
            /\ last' = Call("Delete", id, ZeroComment, "", 0, cancelled,
                            DeleteOp(comments, id).err, ZeroComment, <<>>, 0)
    /\ UNCHANGED <<issued, now, mu, procs, stable, reqs>>

Update(id, c, cancelled) ==
    /\ IF CtxDone(cancelled)
       THEN /\ last' = Call("Update", id, c, "", 0, cancelled, ErrCanceled,
                            ZeroComment, <<>>, 0)
            /\ UNCHANGED comments
       ELSE /\ comments' = UpdateOp(comments, id, c).cs
            /\ last' = Call("Update", id, c, "", 0, cancelled,
                            UpdateOp(comments, id, c).err,
                            UpdateOp(comments, id, c).val, <<>>, 0)
    /\ UNCHANGED <<issued, now, mu, procs, stable, reqs>>

ListByUser(userID, cancelled) ==
    /\ IF CtxDone(cancelled)
       THEN last' = Call("ListByUser", 0, ZeroComment, userID, 0, cancelled,
                         ErrCanceled, ZeroComment, <<>>, 0)
       ELSE \E l \in ListByUserResults(comments, userID) :
            last' = Call("ListByUser", 0, ZeroComment, userID, 0, cancelled,
                         ErrNil, ZeroComment, l, 0)
    /\ UNCHANGED <<comments, issued, now, mu, procs, stable, reqs>>

DeleteByUser(userID, cancelled) ==
    /\ IF CtxDone(cancelled)
       THEN /\ last' = Call("DeleteByUser", 0, ZeroComment, userID, 0, cancelled,
                            ErrCanceled, ZeroComment, <<>>, 0)
            /\ UNCHANGED comments
       ELSE /\ comments' = MapWithout(comments, ByUserKeys(comments, userID))
            /\ last' = Call("DeleteByUser", 0, ZeroComment, userID, 0, cancelled,
                            ErrNil, ZeroComment, <<>>, 0)
    /\ UNCHANGED <<issued, now, mu, procs, stable, reqs>>

DeleteOlderThan(age, cancelled) ==
    /\ IF CtxDone(cancelled)
       THEN /\ last' = Call("DeleteOlderThan", 0, ZeroComment, "", age, cancelled,
                            ErrCanceled, ZeroComment, <<>>, 0)
            /\ UNCHANGED comments
       ELSE /\ comments' = MapWithout(comments, OlderKeys(comments, now, age))
            /\ last' = Call("DeleteOlderThan", 0, ZeroComment, "", age, cancelled,
                            ErrNil, ZeroComment, <<>>, 0)
    /\ UNCHANGED <<issued, now, mu, procs, stable, reqs>>

Count(cancelled) ==
    /\ IF CtxDone(cancelled)
       THEN last' = Call("Count", 0, ZeroComment, "", 0, cancelled, ErrCanceled,
                         ZeroComment, <<>>, 0)
       ELSE last' = Call("Count", 0, ZeroComment, "", 0, cancelled, ErrNil,
                         ZeroComment, <<>>, CountOf(comments))
    /\ UNCHANGED <<comments, issued, now, mu, procs, stable, reqs>>

\* The parts of the state Spec does not use.
ConcIdle ==
    /\ mu = [w |-> 0, readers |-> {}, blocked |-> {}]
    /\ procs = <<>>
    /\ stable = EmptyMap

HTTPIdle == reqs = <<>>

Init ==
    /\ StoreInit
    /\ last = NoCall
    /\ ConcIdle
    /\ HTTPIdle

CreateCall == \E c \in Drafts, cancelled \in BOOLEAN : Create(c, cancelled)
ListCall == \E cancelled \in BOOLEAN : List(cancelled)
GetCall == \E id \in IDs, cancelled \in BOOLEAN : Get(id, cancelled)
DeleteCall == \E id \in IDs, cancelled \in BOOLEAN : Delete(id, cancelled)
UpdateCall ==
    \E id \in IDs, c \in Drafts, cancelled \in BOOLEAN : Update(id, c, cancelled)
ListByUserCall ==
    \E u \in Users, cancelled \in BOOLEAN : ListByUser(u, cancelled)
DeleteByUserCall ==
    \E u \in Users, cancelled \in BOOLEAN : DeleteByUser(u, cancelled)
DeleteOlderThanCall ==
    \E age \in Ages, cancelled \in BOOLEAN : DeleteOlderThan(age, cancelled)
CountCall == \E cancelled \in BOOLEAN : Count(cancelled)

Next ==
    \/ Tick
    \/ CreateCall
    \/ ListCall
    \/ GetCall
    \/ DeleteCall
    \/ UpdateCall
    \/ ListByUserCall
    \/ DeleteByUserCall
    \/ DeleteOlderThanCall
    \/ CountCall

Spec == Init /\ [][Next]_vars

\* ---------------------------------------- SpecConc: concurrent goroutines
\* The methods that take s.mu.Lock() and those that take s.mu.RLock().
Writers == {"Create", "Delete", "Update", "DeleteByUser", "DeleteOlderThan"}
Readers == {"List", "Get", "ListByUser", "Count"}

\* The calls a goroutine can make: a method and its arguments.
Invocation(op, id, draft, userID, age, cancelled) ==
    CallRecord(0, op, id, draft, userID, age, cancelled, ErrNil, ZeroComment, <<>>,
               0, 0, 0)

\* The calls the goroutines make.  Get, Delete and Update address identifier 1
\* and the owner scans owner "A": which identifier a record has and who owns it
\* is decided by the creates before them.
Invocations ==
    { Invocation("Create", 0, c, "", 0, x) : c \in Drafts, x \in BOOLEAN }
    \cup { Invocation("List", 0, ZeroComment, "", 0, x) : x \in BOOLEAN }
    \cup { Invocation("Get", 1, ZeroComment, "", 0, x) : x \in BOOLEAN }
    \cup { Invocation("Delete", 1, ZeroComment, "", 0, x) : x \in BOOLEAN }
    \cup { Invocation("Update", 1, c, "", 0, x) : c \in Drafts, x \in BOOLEAN }
    \cup { Invocation("ListByUser", 0, ZeroComment, "A", 0, x) : x \in BOOLEAN }
    \cup { Invocation("DeleteByUser", 0, ZeroComment, "A", 0, x) : x \in BOOLEAN }
    \cup { Invocation("DeleteOlderThan", 0, ZeroComment, "", 0, x) : x \in BOOLEAN }
    \cup { Invocation("Count", 0, ZeroComment, "", 0, x) : x \in BOOLEAN }

\* A goroutine: where it is in the method (pc), the call, the cutoff
\* DeleteOlderThan computed (t), and the last completed write's map at the
\* moment the method read the map (seen).
Proc(pc, call, t, seen) == [pc |-> pc, call |-> call, t |-> t, seen |-> seen]

IdleProc == Proc("idle", NoCall, 0, EmptyMap)

\* sync.RWMutex: w is the goroutine holding the writer mutex (0: none), readers
\* the goroutines holding a read lock, blocked the readers that arrived while
\* a writer held or awaited the lock.
\* Lock(): the writer mutex is free.
CanLock(m) == m.w = 0
\* Lock(): the writer proceeds when the active readers have left.
WriterMayEnterAlways(m) == TRUE
WriterMayEnter(m) == m.readers = {}
\* RLock(): a reader proceeds unless a writer holds or awaits the lock.
ReaderMayEnterAlways(m) == TRUE
ReaderMayEnter(m) == m.w = 0

\* A goroutine is inside the critical section of its method.
Inside(p) == procs[p].pc \in {"body", "loop", "release"}

ConcInit ==
    /\ mu = [w |-> 0, readers |-> {}, blocked |-> {}]
    /\ procs = [p \in Procs |-> IdleProc]
    /\ stable = EmptyMap

\* The goroutines that will still draw an identifier: a live Create that has
\* not reached line 46.
Drawing == {q \in Procs : /\ procs[q].pc \in {"acquire", "drain", "body"}
                          /\ procs[q].call.op = "Create"
                          /\ ~procs[q].call.cancelled}

\* A Create made before the goroutines start (its result is dropped).
Seed(c) ==
    /\ \A p \in Procs : procs[p].pc = "idle"
    /\ \E id \in GenerateID(issued) :
         /\ comments' = MapStore(comments, id, CreateRecord(c, id, now))
         /\ issued' = issued \cup {id}
    /\ stable' = comments'
    /\ UNCHANGED <<now, last, mu, procs, reqs>>

\* A goroutine calls a store method, one of the calls S.  A live Create starts
\* only while an identifier is left for it.
InvokeFrom(p, S) ==
    /\ procs[p].pc = "idle"
    /\ \E c \in S :
         /\ (c.op = "Create" /\ ~c.cancelled)
               => Cardinality(Drawing) < Cardinality(GenerateID(issued))
         /\ procs' = [procs EXCEPT ![p] = Proc("acquire", c, 0, EmptyMap)]
    /\ UNCHANGED <<comments, issued, now, last, mu, stable, reqs>>

\* In SpecConc each goroutine makes one call.
Invoke(p) == InvokeFrom(p, Invocations)

\* s.mu.Lock(), first half: take the writer mutex and announce the writer.
Lock(p) ==
    /\ procs[p].pc = "acquire"
    /\ procs[p].call.op \in Writers
    /\ CanLock(mu)
    /\ mu' = [mu EXCEPT !.w = p]
    /\ procs' = [procs EXCEPT ![p].pc = "drain"]
    /\ UNCHANGED <<comments, issued, now, last, stable, reqs>>

\* s.mu.Lock(), second half: wait for the active readers, then enter.
LockEnter(p) ==
    /\ procs[p].pc = "drain"
    /\ WriterMayEnter(mu)
    /\ procs' = [procs EXCEPT ![p].pc = "body"]
    /\ UNCHANGED <<comments, issued, now, last, mu, stable, reqs>>

\* s.mu.RLock(): enter, or block behind the writer.
RLock(p) ==
    /\ procs[p].pc = "acquire"
    /\ procs[p].call.op \in Readers
    /\ IF ReaderMayEnter(mu)
       THEN /\ mu' = [mu EXCEPT !.readers = @ \cup {p}]
            /\ procs' = [procs EXCEPT ![p].pc = "body"]
       ELSE /\ mu' = [mu EXCEPT !.blocked = @ \cup {p}]
            /\ procs' = [procs EXCEPT ![p].pc = "rblocked"]
    /\ UNCHANGED <<comments, issued, now, last, stable, reqs>>

\* The method returns early: ctx.Done() is closed.
Cancelled(p) ==
    /\ procs[p].pc = "body"
    /\ CtxDone(procs[p].call.cancelled)
    /\ procs' = [procs EXCEPT ![p].pc = "release", ![p].call.err = ErrCanceled]
    /\ UNCHANGED <<comments, issued, now, last, mu, stable, reqs>>

\* The goroutine is at the body of method op with a live context.
AtBody(p, op) ==
    /\ procs[p].pc = "body"
    /\ procs[p].call.op = op
    /\ ~CtxDone(procs[p].call.cancelled)

\* The goroutine leaves the body with these results.
Returning(p, err, val, list, n) ==
    [procs EXCEPT ![p].pc = "release", ![p].call.err = err, ![p].call.val = val,
                  ![p].call.list = list, ![p].call.n = n, ![p].seen = stable]

CreateBody(p) ==
    /\ AtBody(p, "Create")
    /\ \E id \in GenerateID(issued) :
         /\ comments' = MapStore(comments, id, CreateRecord(procs[p].call.draft, id, now))
         /\ issued' = issued \cup {id}
         /\ procs' = Returning(p, ErrNil, CreateRecord(procs[p].call.draft, id, now),
                               <<>>, 0)
    /\ stable' = comments'
    /\ UNCHANGED <<now, last, mu, reqs>>

DeleteBody(p) ==
    /\ AtBody(p, "Delete")
    /\ comments' = DeleteOp(comments, procs[p].call.id).cs
    /\ procs' = Returning(p, DeleteOp(comments, procs[p].call.id).err,
                          ZeroComment, <<>>, 0)
    /\ stable' = comments'
    /\ UNCHANGED <<issued, now, last, mu, reqs>>

UpdateBody(p) ==
    /\ AtBody(p, "Update")
    /\ comments' = UpdateOp(comments, procs[p].call.id, procs[p].call.draft).cs
    /\ procs' = Returning(p, UpdateOp(comments, procs[p].call.id, procs[p].call.draft).err,
                          UpdateOp(comments, procs[p].call.id, procs[p].call.draft).val,
                          <<>>, 0)
    /\ stable' = comments'
    /\ UNCHANGED <<issued, now, last, mu, reqs>>

\* DeleteByUser and DeleteOlderThan enter their loop over the map;
\* DeleteOlderThan computes its cutoff from the clock first (line 178).
LoopEnter(p) ==
    /\ \/ AtBody(p, "DeleteByUser")
       \/ AtBody(p, "DeleteOlderThan")
    /\ procs' = [procs EXCEPT ![p].pc = "loop", ![p].t = now]
    /\ UNCHANGED <<comments, issued, now, last, mu, stable, reqs>>

\* The keys the loop of goroutine p has still to delete.
LoopKeys(p) ==
    IF procs[p].call.op = "DeleteByUser"
    THEN ByUserKeys(comments, procs[p].call.userID)
    ELSE OlderKeys(comments, procs[p].t, procs[p].call.age)

\* One iteration that deletes a record (lines 161, 181).
LoopDelete(p) ==
    /\ procs[p].pc = "loop"
    /\ \E k \in LoopKeys(p) : comments' = MapDelete(comments, k)
    /\ UNCHANGED <<issued, now, last, mu, procs, stable, reqs>>

\* The loop has visited every record.
LoopExit(p) ==
    /\ procs[p].pc = "loop"
    /\ LoopKeys(p) = {}
    /\ procs' = [procs EXCEPT ![p].pc = "release", ![p].call.err = ErrNil]
    /\ stable' = comments
    /\ UNCHANGED <<comments, issued, now, last, mu, reqs>>

ListBody(p) ==
    /\ AtBody(p, "List")
    /\ \E l \in ListResults(comments) :
         procs' = Returning(p, ErrNil, ZeroComment, l, 0)
    /\ UNCHANGED <<comments, issued, now, last, mu, stable, reqs>>

GetBody(p) ==
    /\ AtBody(p, "Get")
    /\ procs' = Returning(p, GetOp(comments, procs[p].call.id).err,
                          GetOp(comments, procs[p].call.id).val, <<>>, 0)
    /\ UNCHANGED <<comments, issued, now, last, mu, stable, reqs>>

ListByUserBody(p) ==
    /\ AtBody(p, "ListByUser")
    /\ \E l \in ListByUserResults(comments, procs[p].call.userID) :
         procs' = Returning(p, ErrNil, ZeroComment, l, 0)
    /\ UNCHANGED <<comments, issued, now, last, mu, stable, reqs>>

CountBody(p) ==
    /\ AtBody(p, "Count")
    /\ procs' = Returning(p, ErrNil, ZeroComment, <<>>, CountOf(comments))
    /\ UNCHANGED <<comments, issued, now, last, mu, stable, reqs>>

\* defer s.mu.Unlock(): free the lock and admit the readers that blocked.
Unlock(p) ==
    /\ procs[p].pc = "release"
    /\ procs[p].call.op \in Writers
    /\ mu' = [w |-> 0, readers |-> mu.readers \cup mu.blocked, blocked |-> {}]
    /\ procs' = [q \in Procs |->
                   IF q = p THEN [procs[q] EXCEPT !.pc = "done"]
                   ELSE IF q \in mu.blocked THEN [procs[q] EXCEPT !.pc = "body"]
                   ELSE procs[q]]
    /\ UNCHANGED <<comments, issued, now, last, stable, reqs>>

\* defer s.mu.RUnlock().
RUnlock(p) ==
    /\ procs[p].pc = "release"
    /\ procs[p].call.op \in Readers
    /\ mu' = [mu EXCEPT !.readers = @ \ {p}]
    /\ procs' = [procs EXCEPT ![p].pc = "done"]
    /\ UNCHANGED <<comments, issued, now, last, stable, reqs>>

InitConc ==
    /\ StoreInit
    /\ last = NoCall
    /\ ConcInit
    /\ HTTPIdle

NextConc ==
    \/ Tick
    \/ \E c \in Drafts : Seed(c)
    \/ \E p \in Procs : Invoke(p)
    \/ \E p \in Procs : Lock(p)
    \/ \E p \in Procs : LockEnter(p)
    \/ \E p \in Procs : RLock(p)
    \/ \E p \in Procs : Cancelled(p)
    \/ \E p \in Procs : CreateBody(p)
    \/ \E p \in Procs : DeleteBody(p)
    \/ \E p \in Procs : UpdateBody(p)
    \/ \E p \in Procs : LoopEnter(p)
    \/ \E p \in Procs : LoopDelete(p)
    \/ \E p \in Procs : LoopExit(p)
    \/ \E p \in Procs : ListBody(p)
    \/ \E p \in Procs : GetBody(p)
    \/ \E p \in Procs : ListByUserBody(p)
    \/ \E p \in Procs : CountBody(p)
    \/ \E p \in Procs : Unlock(p)
    \/ \E p \in Procs : RUnlock(p)

SpecConc == InitConc /\ [][NextConc]_vars

\* ------------------- SpecCaller: a caller that keeps what was returned
\* The drafts the caller hands to Create: those above and the zero value,
\* which names no owner.
CreateDrafts == Drafts \cup {ZeroComment}

\* The storage of one Comment is a place: the map's entry of a key (the map
\* holds Comment values, comments.go:27), or a cell outside the map: a
\* variable, a parameter, a result, an element of a slice's array.
Entry(k) == [kind |-> "entry", at |-> k]
Cell(a) == [kind |-> "cell", at |-> a]
NoPlace == [kind |-> "none", at |-> 0]

\* The cells of the caller: room for a record and for the elements of a
\* slice.
Cells == 1..(MaxIDs + 1)

\* The Comment read at a place; an entry the map does not hold reads as the
\* zero value.
ReadAt(cs, cells, p) ==
    IF p.kind = "cell" THEN cells[p.at]
    ELSE IF p.kind = "entry" /\ p.at \in DOMAIN cs THEN cs[p.at]
    ELSE ZeroComment

\* What receives a Comment read at the place p.  A Comment is a struct of
\* strings and a time (comments.go:17-23), and the methods declare, pass,
\* append and return Comment, not *Comment: `comment, exists :=
\* s.comments[id]`, `for _, c := range s.comments`, `append(comments, c)` and
\* `return c` each copy the value into the cell a of the variable, slice
\* element or result.  With pointers the receiver would be the place p itself.
PointerTo(p, a) == p
CopyOf(p, a) == Cell(a)

\* What the caller holds after a step.
\*   step     "call": it called a method; "change": it changed what it
\*            holds; "write": the store was written by another caller
\*   op, draft, cancelled, err   the last method called and its error
\*   val, list    the record and the slice that call returned
\*   ref      the place of the record the caller holds, from its last call
\*            that returned one
\*   elems    the places of the elements of the slice the caller holds, from
\*            its last call that returned one
\*   cells    what the cells hold; a cell the caller no longer holds is zero
Held(turn, step, op, draft, cancelled, err, val, list, ref, elems, cells) ==
    [turn |-> turn, step |-> step, op |-> op, draft |-> draft,
     cancelled |-> cancelled, err |-> err, val |-> val, list |-> list,
     ref |-> ref, elems |-> elems, cells |-> cells]

NoHeld ==
    Held(0, "none", "none", ZeroComment, FALSE, ErrNil, ZeroComment, <<>>,
         NoPlace, <<>>, [a \in Cells |-> ZeroComment])

\* The places in a sequence of places.
PlacesOf(ps) == { ps[i] : i \in DOMAIN ps }

\* The cells a new record may take: those that are not elements of the slice
\* the caller holds.  The cell of the record it held before is free again.
FreeForRecord(h) == { a \in Cells : Cell(a) \notin PlacesOf(h.elems) }

\* The arrays of n cells a new slice may take: the elements lie one after
\* another and none is the cell of the record the caller holds.
FreeForSlice(h, n) ==
    { A \in [1..n -> { a \in Cells : Cell(a) # h.ref }] :
        \A i, j \in 1..n : i < j => A[i] < A[j] }

\* The caller called op and was returned the record val, received at place p.
\* On an error the record is the zero value and the caller holds none.
GotRecord(op, draft, cancelled, err, val, p) ==
    Held(1 - last.turn, "call", op, draft, cancelled, err, val, <<>>,
         IF err = ErrNil THEN p ELSE NoPlace,
         last.elems,
         [a \in Cells |->
            IF err = ErrNil /\ p = Cell(a) THEN val
            ELSE IF Cell(a) \in PlacesOf(last.elems) THEN last.cells[a]
            ELSE ZeroComment])

\* The caller called op and was returned the slice list, its elements received
\* at the places ps.
GotSlice(op, list, ps) ==
    Held(1 - last.turn, "call", op, ZeroComment, FALSE, ErrNil, ZeroComment, list,
         last.ref,
         ps,
         [a \in Cells |->
            IF Cell(a) \in PlacesOf(ps) THEN list[CHOOSE i \in DOMAIN ps : ps[i] = Cell(a)]
            ELSE IF Cell(a) = last.ref THEN last.cells[a]
            ELSE ZeroComment])

CallerInit ==
    /\ StoreInit
    /\ last = NoHeld
    /\ ConcIdle
    /\ HTTPIdle

\* Create: c is the method's own copy of the argument; `s.comments[c.ID] = c`
\* copies it into the entry and `return c, nil` into the result.
CallerCreate(c, cancelled) ==
    /\ IF CtxDone(cancelled)
       THEN /\ last' = GotRecord("Create", c, cancelled, ErrCanceled, ZeroComment, NoPlace)
            /\ UNCHANGED <<comments, issued>>
       ELSE \E id \in GenerateID(issued), a \in FreeForRecord(last) :
            /\ comments' = MapStore(comments, id, CreateRecord(c, id, now))
            /\ issued' = issued \cup {id}
            /\ last' = GotRecord("Create", c, cancelled, ErrNil, CreateRecord(c, id, now),
                                 CopyOf(Entry(id), a))
    /\ UNCHANGED <<now, mu, procs, stable, reqs>>

\* Get: `comment, exists := s.comments[id]` and `return comment, nil`.
CallerGet(id) ==
    /\ \E a \in FreeForRecord(last) :
          last' = GotRecord("Get", ZeroComment, FALSE, GetOp(comments, id).err,
                            GetOp(comments, id).val, CopyOf(Entry(id), a))
    /\ UNCHANGED <<comments, issued, now, mu, procs, stable, reqs>>

\* List: `comments := make([]Comment, 0, len(s.comments))` is a new array A,
\* and `comments = append(comments, c)` fills its elements from the range
\* variable c, which holds the entry's value.
CallerList ==
    /\ \E l \in ListResults(comments) : \E A \in FreeForSlice(last, Len(l)) :
          last' = GotSlice("List", l, [i \in 1..Len(l) |-> CopyOf(Entry(l[i].ID), A[i])])
    /\ UNCHANGED <<comments, issued, now, mu, procs, stable, reqs>>

\* ListByUser: `var comments []Comment`, and append makes the array.
CallerListByUser(userID) ==
    /\ \E l \in ListByUserResults(comments, userID) : \E A \in FreeForSlice(last, Len(l)) :
          last' = GotSlice("ListByUser", l,
                           [i \in 1..Len(l) |-> CopyOf(Entry(l[i].ID), A[i])])
    /\ UNCHANGED <<comments, issued, now, mu, procs, stable, reqs>>

\* Update: c is the method's own copy of the argument; `s.comments[id] = c`
\* copies it into the entry and `return c, nil` into the result.
CallerUpdate(id, c) ==
    /\ comments' = UpdateOp(comments, id, c).cs
    /\ \E a \in FreeForRecord(last) :
          last' = GotRecord("Update", c, FALSE, UpdateOp(comments, id, c).err,
                            UpdateOp(comments, id, c).val, CopyOf(Entry(id), a))
    /\ UNCHANGED <<issued, now, mu, procs, stable, reqs>>

\* The caller assigns to the fields of a Comment it holds.
Overwritten(c) ==
    [c EXCEPT !.Content = "changed", !.Author = "changed", !.UserID = "changed"]

\* The caller assigns to the fields of the record and of every element of the
\* slice it holds: each assignment writes the place the caller holds.
CallerChanges ==
    /\ last.step = "call"
    /\ last.err = ErrNil
    /\ last.ref # NoPlace \/ last.elems # <<>>
    /\ last' = [last EXCEPT
                  !.turn = 1 - @, !.step = "change",
                  !.cells = [a \in Cells |->
                               IF Cell(a) \in {last.ref} \cup PlacesOf(last.elems)
                               THEN Overwritten(@[a]) ELSE @[a]]]
    /\ comments' = [k \in DOMAIN comments |->
                      IF Entry(k) \in {last.ref} \cup PlacesOf(last.elems)
                      THEN Overwritten(comments[k]) ELSE comments[k]]
    /\ UNCHANGED <<issued, now, mu, procs, stable, reqs>>

\* Another caller updates a record while this one holds what it was given:
\* the method writes the map's entry and no cell of this caller.
OtherUpdate(id, c) ==
    /\ last.step = "call"
    /\ id \in DOMAIN comments
    /\ comments' = UpdateOp(comments, id, c).cs
    /\ last' = [last EXCEPT !.turn = 1 - @, !.step = "write"]
    /\ UNCHANGED <<issued, now, mu, procs, stable, reqs>>

\* Another caller deletes a record while this one holds what it was given.
OtherDelete(id) ==
    /\ last.step = "call"
    /\ id \in DOMAIN comments
    /\ comments' = DeleteOp(comments, id).cs
    /\ last' = [last EXCEPT !.turn = 1 - @, !.step = "write"]
    /\ UNCHANGED <<issued, now, mu, procs, stable, reqs>>

NextCaller ==
    \/ \E c \in CreateDrafts, cancelled \in BOOLEAN : CallerCreate(c, cancelled)
    \/ \E id \in IDs : CallerGet(id)
    \/ CallerList
    \/ \E u \in Users : CallerListByUser(u)
    \/ \E id \in IDs, c \in Drafts : CallerUpdate(id, c)
    \/ CallerChanges
    \/ \E id \in IDs, c \in Drafts : OtherUpdate(id, c)
    \/ \E id \in IDs : OtherDelete(id)

SpecCaller == CallerInit /\ [][NextCaller]_vars

\* ------------------------------- SpecFair: goroutines that call again
\* The calls made: every method, with a live and with a cancelled context.
FairInvocations == { c \in Invocations : c.draft.UserID # "B" }

FairInvoke(p) == InvokeFrom(p, FairInvocations)

\* The method has returned to its caller, which may call again.
Return(p) ==
    /\ procs[p].pc = "done"
    /\ procs' = [procs EXCEPT ![p] = IdleProc]
    /\ UNCHANGED <<comments, issued, now, last, mu, stable, reqs>>

\* The steps of goroutine p inside a store method, but for taking the writer
\* mutex.
Run(p) ==
    \/ LockEnter(p)
    \/ RLock(p)
    \/ Cancelled(p)
    \/ CreateBody(p)
    \/ DeleteBody(p)
    \/ UpdateBody(p)
    \/ LoopEnter(p)
    \/ LoopDelete(p)
    \/ LoopExit(p)
    \/ ListBody(p)
    \/ GetBody(p)
    \/ ListByUserBody(p)
    \/ CountBody(p)
    \/ Unlock(p)
    \/ RUnlock(p)

NextFair ==
    \/ \E p \in Procs : FairInvoke(p)
    \/ \E p \in Procs : Lock(p)
    \/ \E p \in Procs : Run(p)
    \/ \E p \in Procs : Return(p)

\* The scheduler runs every goroutine that can run; sync.Mutex hands the
\* writer mutex to a goroutine that keeps waiting for it (starvation mode).
Fairness ==
    \A p \in Procs : WF_vars(Run(p)) /\ SF_vars(Lock(p))

SpecFair == InitConc /\ [][NextFair]_vars /\ Fairness

\* ------------------------------------------------------- token service
\* The signing secret of the configuration and the validity window both
\* managers are built with (24 hours: two units of the clock, which counts
\* half days).
Secret == "test-secret"
TokenExpiry == 2
\* Seconds in one unit of the clock.
SecondsPerUnit == 12 * 60 * 60

\* auth.NewJWTManager.
NewJWTManager(secretKey, expiry) == [secretKey |-> secretKey, expiry |-> expiry]

\* A token string.  parses: it is three base64 segments holding JSON; alg: the
\* header's algorithm; sig: the key its signature was made with; the rest are
\* the claims.
Token(parses, alg, sig, userID, role, iat, nbf, exp) ==
    [parses |-> parses, alg |-> alg, sig |-> sig, UserID |-> userID,
     Role |-> role, iat |-> iat, nbf |-> nbf, exp |-> exp]

\* A string that is no token.
NoToken == Token(FALSE, "", "", "", "", 0, 0, 0)

\* JWTManager.GenerateToken at time t.  The clock counts half days, so
\* jwt.NewNumericDate's truncation to seconds changes no time.
GenerateTokenStale(m, userID, role, t) ==
    Token(TRUE, "HS256", m.secretKey, userID, role, t, t, t)
GenerateToken(m, userID, role, t) ==
    Token(TRUE, "HS256", m.secretKey, userID, role, t, t, t + m.expiry)

\* The algorithms of *jwt.SigningMethodHMAC.
HMACFamily == {"HS256", "HS384", "HS512"}

\* JWTManager.ValidateToken at time t: the error, and the claims when it is nil.
TokenErrorNoSignature(m, tok, t) ==
    IF ~tok.parses THEN "token is malformed"
    ELSE IF tok.alg \notin HMACFamily THEN "unexpected signing method"
    ELSE IF ~(t < tok.exp) THEN "token is expired"
    ELSE IF t < tok.nbf THEN "token is not valid yet"
    ELSE ErrNil
TokenErrorInclusive(m, tok, t) ==
    IF ~tok.parses THEN "token is malformed"
    ELSE IF tok.alg \notin HMACFamily THEN "unexpected signing method"
    ELSE IF tok.sig # m.secretKey THEN "signature is invalid"
    ELSE IF t > tok.exp THEN "token is expired"
    ELSE IF t < tok.nbf THEN "token is not valid yet"
    ELSE ErrNil
TokenError(m, tok, t) ==
    IF ~tok.parses THEN "token is malformed"
    ELSE IF tok.alg \notin HMACFamily THEN "unexpected signing method"
    ELSE IF tok.sig # m.secretKey THEN "signature is invalid"
    ELSE IF ~(t < tok.exp) THEN "token is expired"
    ELSE IF t < tok.nbf THEN "token is not valid yet"
    ELSE ErrNil

ValidateTokenTrusting(m, tok, t) ==
    [err |-> IF tok.parses THEN ErrNil ELSE "token is malformed",
     claims |-> tok.parses, UserID |-> tok.UserID, Role |-> tok.Role]
\* claims: the *Claims returned is not nil.
ValidateToken(m, tok, t) ==
    IF TokenError(m, tok, t) = ErrNil
    THEN [err |-> ErrNil, claims |-> TRUE, UserID |-> tok.UserID, Role |-> tok.Role]
    ELSE [err |-> TokenError(m, tok, t), claims |-> FALSE, UserID |-> "", Role |-> ""]

\* ------------------------------------------- SpecToken: the token service
\* The managers: the configured secret or another one, and a validity window
\* of one unit or the configured one.
Expiries == {1, TokenExpiry}
Managers == { NewJWTManager(s, e) : s \in {Secret, "other-secret"}, e \in Expiries }

\* The subjects and roles tokens are generated for.
Subjects == Users \cup {""}
Roles == {"user", "admin"}

\* The token service as its callers see it.
\*   m, userID, role, t   the GenerateToken call that made the token: its
\*                        manager, its arguments and its time
\*   token    the token string held; altered: the holder has changed it
\*   vm, res  the manager of the last ValidateToken call and what it returned
TokenCall(turn, op, m, userID, role, t, token, altered, vm, res) ==
    [turn |-> turn, op |-> op, m |-> m, userID |-> userID, role |-> role,
     t |-> t, token |-> token, altered |-> altered, vm |-> vm, res |-> res]

NoResult == [err |-> ErrNil, claims |-> FALSE, UserID |-> "", Role |-> ""]

NoTokenCall ==
    TokenCall(0, "none", NewJWTManager(Secret, TokenExpiry), "", "", 0, NoToken, FALSE,
              NewJWTManager(Secret, TokenExpiry), NoResult)

\* What a holder can make of a token string without the key: another header
\* algorithm, other claims under the old signature, or garbage; and with the
\* key, the same claims signed by another HMAC method.
Altered(tok) ==
    { [tok EXCEPT !.alg = a, !.sig = ""] : a \in {"none", "RS256"} }
    \cup { [tok EXCEPT !.alg = "HS384"] }
    \cup { [tok EXCEPT !.UserID = "A", !.Role = "admin", !.sig = ""] }
    \cup { [tok EXCEPT !.exp = tok.exp + TokenExpiry, !.sig = ""] }
    \cup { NoToken }

TokenInit ==
    /\ StoreInit
    /\ last = NoTokenCall
    /\ ConcIdle
    /\ HTTPIdle

\* m.GenerateToken(userID, role) at the current time.
GenerateTokenCall(m, userID, role) ==
    /\ last' = TokenCall(1 - last.turn, "GenerateToken", m, userID, role, now,
                         GenerateToken(m, userID, role, now), FALSE, m, NoResult)
    /\ UNCHANGED <<comments, issued, now, mu, procs, stable, reqs>>

\* The holder of the token string alters it.
AlterToken ==
    /\ last.op = "GenerateToken"
    /\ \E tok \in Altered(last.token) :
          last' = [last EXCEPT !.turn = 1 - last.turn, !.op = "Alter",
                               !.token = tok, !.altered = TRUE]
    /\ UNCHANGED <<comments, issued, now, mu, procs, stable, reqs>>

\* vm.ValidateToken(tokenStr) at the current time, on the token string held.
ValidateTokenCall(vm) ==
    /\ last.op # "none"
    /\ last' = [last EXCEPT !.turn = 1 - last.turn, !.op = "ValidateToken",
                            !.vm = vm,
                            !.res = ValidateToken(vm, last.token, now)]
    /\ UNCHANGED <<comments, issued, now, mu, procs, stable, reqs>>

NextToken ==
    \/ Tick
    \/ \E m \in Managers, u \in Subjects, r \in Roles : GenerateTokenCall(m, u, r)
    \/ AlterToken
    \/ \E vm \in Managers : ValidateTokenCall(vm)

SpecToken == TokenInit /\ [][NextToken]_vars

\* ------------------------------------------------------------ requests
\* An Authorization header: what precedes the credential, and the credential
\* read as a token.  The absent header is the empty string.
Header(prefix, token) == [prefix |-> prefix, token |-> token]
NoHeader == Header("", NoToken)

\* A request body.  json: it decodes as a JSON object; the fields are those
\* the decoders read (a field the object lacks is the empty string).
Body(json, content, author, username, password) ==
    [json |-> json, Content |-> content, Author |-> author,
     Username |-> username, Password |-> password]
NoBody == Body(FALSE, "", "", "", "")

\* The paths the mux tells apart; ItemPath is followed by the identifier.
HealthPath == "/healthz"
LoginPath == "/api/v1/login"
CommentsPath == "/api/v1/comments"
ItemPath == "/api/v1/comments/"
OtherPath == "/metrics"

\* One request and what the chain made of it.
\*   stage    where the request is in the chain
\*   gone     the request's context is cancelled (the client went away)
\*   userID, role   the identity the auth middleware put in the context
\*   calls    how many times the auth middleware called next.ServeHTTP
\*   gate     the status the auth middleware wrote itself (0: it wrote none)
\*   handler  the route handler that ran
\*   ops      how many store methods the handler called
\*   status, kind, val, list, problems, token, expiresIn, health   the
\*            response: its code, the form of its body and the values in it
Exchange(stage, method, path, id, auth, body, gone) ==
    [stage |-> stage, method |-> method, path |-> path, id |-> id,
     auth |-> auth, body |-> body, gone |-> gone,
     userID |-> "", role |-> "", calls |-> 0, gate |-> 0, handler |-> "none",
     ops |-> 0,
     status |-> 0, kind |-> "none", val |-> ZeroComment, list |-> <<>>,
     problems |-> {}, token |-> NoToken, expiresIn |-> 0,
     health |-> [status |-> "", time |-> ""]]

Idle == Exchange("idle", "", "", 0, NoHeader, NoBody, FALSE)

\* http.Error(w, msg, code): a text body.
TextReply(x, code) == [x EXCEPT !.stage = "done", !.status = code, !.kind = "text"]
\* w.WriteHeader(code) alone.
BareReply(x, code) == [x EXCEPT !.stage = "done", !.status = code, !.kind = "none"]
\* encode(w, r, code, v): a JSON body.
JSONReply(x, code) == [x EXCEPT !.stage = "done", !.status = code, !.kind = "json"]

\* --------------------------------------------------------- middleware
\* newCORSMiddleware: OPTIONS is answered here, anything else goes on.
CORSLayerPass(x) == [x EXCEPT !.stage = "auth"]
CORSLayer(x) ==
    IF x.method = "OPTIONS" THEN BareReply(x, 200)
    ELSE [x EXCEPT !.stage = "auth"]

\* The paths newAuthMiddleware lets through unauthenticated.
IsPublicHealthOnly(path) == path = HealthPath
IsPublic(path) == path = HealthPath \/ path = LoginPath

\* strings.HasPrefix(authHeader, "Bearer ")
HasBearer(h) == h.prefix = "Bearer "

\* The manager newAuthMiddleware builds and the one addRoutes builds for
\* handleLogin.
GateManager == NewJWTManager(Secret, TokenExpiry)
LoginManagerOtherSecret == NewJWTManager("other-secret", TokenExpiry)
LoginManager == NewJWTManager(Secret, TokenExpiry)

\* newAuthMiddleware.
AuthLayerOpen(x, t) == [x EXCEPT !.stage = "mux", !.calls = @ + 1]
AuthLayerNoReturn(x, t) ==
    LET claims == ValidateToken(GateManager, x.auth.token, t) IN
    IF IsPublic(x.path) THEN [x EXCEPT !.stage = "mux", !.calls = @ + 1]
    ELSE IF ~HasBearer(x.auth) \/ claims.err # ErrNil
    THEN [x EXCEPT !.stage = "mux", !.calls = @ + 1, !.gate = 401]
    ELSE [x EXCEPT !.stage = "mux", !.calls = @ + 1,
                   !.userID = claims.UserID, !.role = claims.Role]
AuthLayer(x, t) ==
    LET claims == ValidateToken(GateManager, x.auth.token, t) IN
    IF IsPublic(x.path) THEN [x EXCEPT !.stage = "mux", !.calls = @ + 1]
    ELSE IF ~HasBearer(x.auth) THEN [TextReply(x, 401) EXCEPT !.gate = 401]
    ELSE IF claims.err # ErrNil THEN [TextReply(x, 401) EXCEPT !.gate = 401]
    ELSE [x EXCEPT !.stage = "mux", !.calls = @ + 1,
                   !.userID = claims.UserID, !.role = claims.Role]

\* UserIDFromContext.
UserIDFromContextNone(x) == ""
UserIDFromContext(x) == x.userID

\* ------------------------------------------------------------ handlers
\* The white space characters that have no escape in a string: U+000B (\v),
\* U+0085 (next line), U+00A0 (no-break space) and U+1680 (ogham space mark).
VT == ""
NEL == ""
NBSP == " "
OghamSpace == " "

\* White space as strings.TrimSpace takes it (unicode.IsSpace): \t, \n, \v,
\* \f, \r, the space, U+0085, U+00A0 and the space separators beyond Latin-1.
\* Of those U+1680 is here; U+2000 to U+200A, U+2028, U+2029, U+202F, U+205F
\* and U+3000 cannot be written in a string of this module, so no string
\* Blank is applied to holds them.
WhiteSpace == {"\t", "\n", VT, "\f", "\r", " ", NEL, NBSP, OghamSpace}

\* strings.TrimSpace(s) == "": every character of s is white space.
Blank(s) == \A i \in 1..Len(s) : SubSeq(s, i, i) \in WhiteSpace

\* The characters of a string.
Chars(s) == { SubSeq(s, i, i) : i \in 1..Len(s) }

\* A string of this module can hold, beyond ASCII, the characters U+0080 to
\* U+00FF and the upper half (U+xx80 to U+xxFF) of each later block of 256 of
\* the basic plane.
\* TwoByteText holds those up to U+07FF and ThreeByteText those from U+0800,
\* one block per line.
TwoByteText ==
    " ¡¢£¤¥¦§¨©ª«¬­®¯°±²³´µ¶·¸¹º»¼½¾¿ÀÁÂÃÄÅÆÇÈÉÊËÌÍÎÏÐÑÒÓÔÕÖ×ØÙÚÛÜÝÞßàáâãäåæçèéêëìíîïðñòóôõö÷øùúûüýþÿ"
    \o "ƀƁƂƃƄƅƆƇƈƉƊƋƌƍƎƏƐƑƒƓƔƕƖƗƘƙƚƛƜƝƞƟƠơƢƣƤƥƦƧƨƩƪƫƬƭƮƯưƱƲƳƴƵƶƷƸƹƺƻƼƽƾƿǀǁǂǃǄǅǆǇǈǉǊǋǌǍǎǏǐǑǒǓǔǕǖǗǘǙǚǛǜǝǞǟǠǡǢǣǤǥǦǧǨǩǪǫǬǭǮǯǰǱǲǳǴǵǶǷǸǹǺǻǼǽǾǿ"
    \o "ʀʁʂʃʄʅʆʇʈʉʊʋʌʍʎʏʐʑʒʓʔʕʖʗʘʙʚʛʜʝʞʟʠʡʢʣʤʥʦʧʨʩʪʫʬʭʮʯʰʱʲʳʴʵʶʷʸʹʺʻʼʽʾʿˀˁ˂˃˄˅ˆˇˈˉˊˋˌˍˎˏːˑ˒˓˔˕˖˗˘˙˚˛˜˝˞˟ˠˡˢˣˤ˥˦˧˨˩˪˫ˬ˭ˮ˯˰˱˲˳˴˵˶˷˸˹˺˻˼˽˾˿"
    \o "΀΁΂΃΄΅Ά·ΈΉΊ΋Ό΍ΎΏΐΑΒΓΔΕΖΗΘΙΚΛΜΝΞΟΠΡ΢ΣΤΥΦΧΨΩΪΫάέήίΰαβγδεζηθικλμνξοπρςστυφχψωϊϋόύώϏϐϑϒϓϔϕϖϗϘϙϚϛϜϝϞϟϠϡϢϣϤϥϦϧϨϩϪϫϬϭϮϯϰϱϲϳϴϵ϶ϷϸϹϺϻϼϽϾϿ"
    \o "Ҁҁ҂҃҄҅҆҇҈҉ҊҋҌҍҎҏҐґҒғҔҕҖҗҘҙҚқҜҝҞҟҠҡҢңҤҥҦҧҨҩҪҫҬҭҮүҰұҲҳҴҵҶҷҸҹҺһҼҽҾҿӀӁӂӃӄӅӆӇӈӉӊӋӌӍӎӏӐӑӒӓӔӕӖӗӘәӚӛӜӝӞӟӠӡӢӣӤӥӦӧӨөӪӫӬӭӮӯӰӱӲӳӴӵӶӷӸӹӺӻӼӽӾӿ"
    \o "րցւփքօֆևֈ։֊֋֌֍֎֏֐ְֱֲֳִֵֶַָֹֺֻּֽ֑֖֛֢֣֤֥֦֧֪֚֭֮֒֓֔֕֗֘֙֜֝֞֟֠֡֨֩֫֬֯־ֿ׀ׁׂ׃ׅׄ׆ׇ׈׉׊׋׌׍׎׏אבגדהוזחטיךכלםמןנסעףפץצקרשת׫׬׭׮ׯװױײ׳״׵׶׷׸׹׺׻׼׽׾׿"
    \o "ڀځڂڃڄڅچڇڈډڊڋڌڍڎڏڐڑڒړڔڕږڗژڙښڛڜڝڞڟڠڡڢڣڤڥڦڧڨکڪګڬڭڮگڰڱڲڳڴڵڶڷڸڹںڻڼڽھڿۀہۂۃۄۅۆۇۈۉۊۋیۍێۏېۑےۓ۔ەۖۗۘۙۚۛۜ۝۞ۣ۟۠ۡۢۤۥۦۧۨ۩۪ۭ۫۬ۮۯ۰۱۲۳۴۵۶۷۸۹ۺۻۼ۽۾ۿ"
    \o "ހށނރބޅކއވމފދތލގޏސޑޒޓޔޕޖޗޘޙޚޛޜޝޞޟޠޡޢޣޤޥަާިީުޫެޭޮޯްޱ޲޳޴޵޶޷޸޹޺޻޼޽޾޿߀߁߂߃߄߅߆߇߈߉ߊߋߌߍߎߏߐߑߒߓߔߕߖߗߘߙߚߛߜߝߞߟߠߡߢߣߤߥߦߧߨߩߪ߲߫߬߭߮߯߰߱߳ߴߵ߶߷߸߹ߺ߻߼߽߾߿"
TwoByteChars == Chars(TwoByteText)
ThreeByteText ==
    "ࢀࢁࢂࢃࢄࢅࢆࢇ࢈ࢉࢊࢋࢌࢍࢎ࢏࢐࢑࢒࢓࢔࢕࢖࢙࢚࢛ࢗ࢘࢜࢝࢞࢟ࢠࢡࢢࢣࢤࢥࢦࢧࢨࢩࢪࢫࢬࢭࢮࢯࢰࢱࢲࢳࢴࢵࢶࢷࢸࢹࢺࢻࢼࢽࢾࢿࣀࣁࣂࣃࣄࣅࣆࣇࣈࣉ࣏࣐࣑࣒࣓࣊࣋࣌࣍࣎ࣔࣕࣖࣗࣘࣙࣚࣛࣜࣝࣞࣟ࣠࣡࣢ࣰࣱࣲࣣࣦࣩ࣭࣮࣯ࣶࣹࣺࣤࣥࣧࣨ࣪࣫࣬ࣳࣴࣵࣷࣸࣻࣼࣽࣾࣿ"
    \o "ঀঁংঃ঄অআইঈউঊঋঌ঍঎এঐ঑঒ওঔকখগঘঙচছজঝঞটঠডঢণতথদধন঩পফবভমযর঱ল঳঴঵শষসহ঺঻়ঽািীুূৃৄ৅৆েৈ৉৊োৌ্ৎ৏৐৑৒৓৔৕৖ৗ৘৙৚৛ড়ঢ়৞য়ৠৡৢৣ৤৥০১২৩৪৫৬৭৮৯ৰৱ৲৳৴৵৶৷৸৹৺৻ৼ৽৾৿"
    \o "઀ઁંઃ઄અઆઇઈઉઊઋઌઍ઎એઐઑ઒ઓઔકખગઘઙચછજઝઞટઠડઢણતથદધન઩પફબભમયર઱લળ઴વશષસહ઺઻઼ઽાિીુૂૃૄૅ૆ેૈૉ૊ોૌ્૎૏ૐ૑૒૓૔૕૖૗૘૙૚૛૜૝૞૟ૠૡૢૣ૤૥૦૧૨૩૪૫૬૭૮૯૰૱૲૳૴૵૶૷૸ૹૺૻૼ૽૾૿"
    \o "஀஁ஂஃ஄அஆஇஈஉஊ஋஌஍எஏஐ஑ஒஓஔக஖஗஘ஙச஛ஜ஝ஞட஠஡஢ணத஥஦஧நனப஫஬஭மயரறலளழவஶஷஸஹ஺஻஼஽ாிீுூ௃௄௅ெேை௉ொோௌ்௎௏ௐ௑௒௓௔௕௖ௗ௘௙௚௛௜௝௞௟௠௡௢௣௤௥௦௧௨௩௪௫௬௭௮௯௰௱௲௳௴௵௶௷௸௹௺௻௼௽௾௿"
    \o "ಀಁಂಃ಄ಅಆಇಈಉಊಋಌ಍ಎಏಐ಑ಒಓಔಕಖಗಘಙಚಛಜಝಞಟಠಡಢಣತಥದಧನ಩ಪಫಬಭಮಯರಱಲಳ಴ವಶಷಸಹ಺಻಼ಽಾಿೀುೂೃೄ೅ೆೇೈ೉ೊೋೌ್೎೏೐೑೒೓೔ೕೖ೗೘೙೚೛೜ೝೞ೟ೠೡೢೣ೤೥೦೧೨೩೪೫೬೭೮೯೰ೱೲೳ೴೵೶೷೸೹೺೻೼೽೾೿"
    \o "඀ඁංඃ඄අආඇඈඉඊඋඌඍඎඏඐඑඒඓඔඕඖ඗඘඙කඛගඝඞඟචඡජඣඤඥඦටඨඩඪණඬතථදධන඲ඳපඵබභමඹයර඼ල඾඿වශෂසහළෆ෇෈෉්෋෌෍෎ාැෑිීු෕ූ෗ෘෙේෛොෝෞෟ෠෡෢෣෤෥෦෧෨෩෪෫෬෭෮෯෰෱ෲෳ෴෵෶෷෸෹෺෻෼෽෾෿"
    \o "຀ກຂ຃ຄ຅ຆງຈຉຊ຋ຌຍຎຏຐຑຒຓດຕຖທຘນບປຜຝພຟຠມຢຣ຤ລ຦ວຨຩສຫຬອຮຯະັາຳິີຶື຺ຸູົຼຽ຾຿ເແໂໃໄ໅ໆ໇່້໊໋໌ໍ໎໏໐໑໒໓໔໕໖໗໘໙໚໛ໜໝໞໟ໠໡໢໣໤໥໦໧໨໩໪໫໬໭໮໯໰໱໲໳໴໵໶໷໸໹໺໻໼໽໾໿"
    \o "྄ཱྀྀྂྃ྅྆྇ྈྉྊྋྌྍྎྏྐྑྒྒྷྔྕྖྗ྘ྙྚྛྜྜྷྞྟྠྡྡྷྣྤྥྦྦྷྨྩྪྫྫྷྭྮྯྰྱྲླྴྵྶྷྸྐྵྺྻྼ྽྾྿࿀࿁࿂࿃࿄࿅࿆࿇࿈࿉࿊࿋࿌࿍࿎࿏࿐࿑࿒࿓࿔࿕࿖࿗࿘࿙࿚࿛࿜࿝࿞࿟࿠࿡࿢࿣࿤࿥࿦࿧࿨࿩࿪࿫࿬࿭࿮࿯࿰࿱࿲࿳࿴࿵࿶࿷࿸࿹࿺࿻࿼࿽࿾࿿"
    \o "ႀႁႂႃႄႅႆႇႈႉႊႋႌႍႎႏ႐႑႒႓႔႕႖႗႘႙ႚႛႜႝ႞႟ႠႡႢႣႤႥႦႧႨႩႪႫႬႭႮႯႰႱႲႳႴႵႶႷႸႹႺႻႼႽႾႿჀჁჂჃჄჅ჆Ⴧ჈჉჊჋჌Ⴭ჎჏აბგდევზთიკლმნოპჟრსტუფქღყშჩცძწჭხჯჰჱჲჳჴჵჶჷჸჹჺ჻ჼჽჾჿ"
    \o "ᆀᆁᆂᆃᆄᆅᆆᆇᆈᆉᆊᆋᆌᆍᆎᆏᆐᆑᆒᆓᆔᆕᆖᆗᆘᆙᆚᆛᆜᆝᆞᆟᆠᆡᆢᆣᆤᆥᆦᆧᆨᆩᆪᆫᆬᆭᆮᆯᆰᆱᆲᆳᆴᆵᆶᆷᆸᆹᆺᆻᆼᆽᆾᆿᇀᇁᇂᇃᇄᇅᇆᇇᇈᇉᇊᇋᇌᇍᇎᇏᇐᇑᇒᇓᇔᇕᇖᇗᇘᇙᇚᇛᇜᇝᇞᇟᇠᇡᇢᇣᇤᇥᇦᇧᇨᇩᇪᇫᇬᇭᇮᇯᇰᇱᇲᇳᇴᇵᇶᇷᇸᇹᇺᇻᇼᇽᇾᇿ"
    \o "ኀኁኂኃኄኅኆኇኈ኉ኊኋኌኍ኎኏ነኑኒናኔንኖኗኘኙኚኛኜኝኞኟአኡኢኣኤእኦኧከኩኪካኬክኮኯኰ኱ኲኳኴኵ኶኷ኸኹኺኻኼኽኾ኿ዀ዁ዂዃዄዅ዆዇ወዉዊዋዌውዎዏዐዑዒዓዔዕዖ዗ዘዙዚዛዜዝዞዟዠዡዢዣዤዥዦዧየዩዪያዬይዮዯደዱዲዳዴድዶዷዸዹዺዻዼዽዾዿ"
    \o "ᎀᎁᎂᎃᎄᎅᎆᎇᎈᎉᎊᎋᎌᎍᎎᎏ᎐᎑᎒᎓᎔᎕᎖᎗᎘᎙᎚᎛᎜᎝᎞᎟ᎠᎡᎢᎣᎤᎥᎦᎧᎨᎩᎪᎫᎬᎭᎮᎯᎰᎱᎲᎳᎴᎵᎶᎷᎸᎹᎺᎻᎼᎽᎾᎿᏀᏁᏂᏃᏄᏅᏆᏇᏈᏉᏊᏋᏌᏍᏎᏏᏐᏑᏒᏓᏔᏕᏖᏗᏘᏙᏚᏛᏜᏝᏞᏟᏠᏡᏢᏣᏤᏥᏦᏧᏨᏩᏪᏫᏬᏭᏮᏯᏰᏱᏲᏳᏴᏵ᏶᏷ᏸᏹᏺᏻᏼᏽ᏾᏿"
    \o "ᒀᒁᒂᒃᒄᒅᒆᒇᒈᒉᒊᒋᒌᒍᒎᒏᒐᒑᒒᒓᒔᒕᒖᒗᒘᒙᒚᒛᒜᒝᒞᒟᒠᒡᒢᒣᒤᒥᒦᒧᒨᒩᒪᒫᒬᒭᒮᒯᒰᒱᒲᒳᒴᒵᒶᒷᒸᒹᒺᒻᒼᒽᒾᒿᓀᓁᓂᓃᓄᓅᓆᓇᓈᓉᓊᓋᓌᓍᓎᓏᓐᓑᓒᓓᓔᓕᓖᓗᓘᓙᓚᓛᓜᓝᓞᓟᓠᓡᓢᓣᓤᓥᓦᓧᓨᓩᓪᓫᓬᓭᓮᓯᓰᓱᓲᓳᓴᓵᓶᓷᓸᓹᓺᓻᓼᓽᓾᓿ"
    \o "ᖀᖁᖂᖃᖄᖅᖆᖇᖈᖉᖊᖋᖌᖍᖎᖏᖐᖑᖒᖓᖔᖕᖖᖗᖘᖙᖚᖛᖜᖝᖞᖟᖠᖡᖢᖣᖤᖥᖦᖧᖨᖩᖪᖫᖬᖭᖮᖯᖰᖱᖲᖳᖴᖵᖶᖷᖸᖹᖺᖻᖼᖽᖾᖿᗀᗁᗂᗃᗄᗅᗆᗇᗈᗉᗊᗋᗌᗍᗎᗏᗐᗑᗒᗓᗔᗕᗖᗗᗘᗙᗚᗛᗜᗝᗞᗟᗠᗡᗢᗣᗤᗥᗦᗧᗨᗩᗪᗫᗬᗭᗮᗯᗰᗱᗲᗳᗴᗵᗶᗷᗸᗹᗺᗻᗼᗽᗾᗿ"
    \o " ᚁᚂᚃᚄᚅᚆᚇᚈᚉᚊᚋᚌᚍᚎᚏᚐᚑᚒᚓᚔᚕᚖᚗᚘᚙᚚ᚛᚜᚝᚞᚟ᚠᚡᚢᚣᚤᚥᚦᚧᚨᚩᚪᚫᚬᚭᚮᚯᚰᚱᚲᚳᚴᚵᚶᚷᚸᚹᚺᚻᚼᚽᚾᚿᛀᛁᛂᛃᛄᛅᛆᛇᛈᛉᛊᛋᛌᛍᛎᛏᛐᛑᛒᛓᛔᛕᛖᛗᛘᛙᛚᛛᛜᛝᛞᛟᛠᛡᛢᛣᛤᛥᛦᛧᛨᛩᛪ᛫᛬᛭ᛮᛯᛰᛱᛲᛳᛴᛵᛶᛷᛸ᛹᛺᛻᛼᛽᛾᛿"
    \o "កខគឃងចឆជឈញដឋឌឍណតថទធនបផពភមយរលវឝឞសហឡអឣឤឥឦឧឨឩឪឫឬឭឮឯឰឱឲឳ឴឵ាិីឹឺុូួើឿៀេែៃោៅំះៈ៉៊់៌៍៎៏័៑្៓។៕៖ៗ៘៙៚៛ៜ៝៞៟០១២៣៤៥៦៧៨៩៪៫៬៭៮៯៰៱៲៳៴៵៶៷៸៹៺៻៼៽៾៿"
    \o "ᢀᢁᢂᢃᢄᢅᢆᢇᢈᢉᢊᢋᢌᢍᢎᢏᢐᢑᢒᢓᢔᢕᢖᢗᢘᢙᢚᢛᢜᢝᢞᢟᢠᢡᢢᢣᢤᢥᢦᢧᢨᢩᢪ᢫᢬᢭᢮᢯ᢰᢱᢲᢳᢴᢵᢶᢷᢸᢹᢺᢻᢼᢽᢾᢿᣀᣁᣂᣃᣄᣅᣆᣇᣈᣉᣊᣋᣌᣍᣎᣏᣐᣑᣒᣓᣔᣕᣖᣗᣘᣙᣚᣛᣜᣝᣞᣟᣠᣡᣢᣣᣤᣥᣦᣧᣨᣩᣪᣫᣬᣭᣮᣯᣰᣱᣲᣳᣴᣵ᣶᣷᣸᣹᣺᣻᣼᣽᣾᣿"
    \o "ᦀᦁᦂᦃᦄᦅᦆᦇᦈᦉᦊᦋᦌᦍᦎᦏᦐᦑᦒᦓᦔᦕᦖᦗᦘᦙᦚᦛᦜᦝᦞᦟᦠᦡᦢᦣᦤᦥᦦᦧᦨᦩᦪᦫ᦬᦭᦮᦯ᦰᦱᦲᦳᦴᦵᦶᦷᦸᦹᦺᦻᦼᦽᦾᦿᧀᧁᧂᧃᧄᧅᧆᧇᧈᧉ᧊᧋᧌᧍᧎᧏᧐᧑᧒᧓᧔᧕᧖᧗᧘᧙᧚᧛᧜᧝᧞᧟᧠᧡᧢᧣᧤᧥᧦᧧᧨᧩᧪᧫᧬᧭᧮᧯᧰᧱᧲᧳᧴᧵᧶᧷᧸᧹᧺᧻᧼᧽᧾᧿"
    \o "᪀᪁᪂᪃᪄᪅᪆᪇᪈᪉᪊᪋᪌᪍᪎᪏᪐᪑᪒᪓᪔᪕᪖᪗᪘᪙᪚᪛᪜᪝᪞᪟᪠᪡᪢᪣᪤᪥᪦ᪧ᪨᪩᪪᪫᪬᪭᪮᪯᪵᪶᪷᪸᪹᪺᪽᪰᪱᪲᪳᪴᪻᪼᪾ᪿᫀ᫃᫄᫊᫁᫂᫅᫆᫇᫈᫉᫋ᫌᫍᫎ᫏᫐᫑᫒᫓᫔᫕᫖᫗᫘᫙᫚᫛᫜᫝᫞᫟᫠᫡᫢᫣᫤᫥᫦᫧᫨᫩᫪᫫᫬᫭᫮᫯᫰᫱᫲᫳᫴᫵᫶᫷᫸᫹᫺᫻᫼᫽᫾᫿"
    \o "ᮀᮁᮂᮃᮄᮅᮆᮇᮈᮉᮊᮋᮌᮍᮎᮏᮐᮑᮒᮓᮔᮕᮖᮗᮘᮙᮚᮛᮜᮝᮞᮟᮠᮡᮢᮣᮤᮥᮦᮧᮨᮩ᮪᮫ᮬᮭᮮᮯ᮰᮱᮲᮳᮴᮵᮶᮷᮸᮹ᮺᮻᮼᮽᮾᮿᯀᯁᯂᯃᯄᯅᯆᯇᯈᯉᯊᯋᯌᯍᯎᯏᯐᯑᯒᯓᯔᯕᯖᯗᯘᯙᯚᯛᯜᯝᯞᯟᯠᯡᯢᯣᯤᯥ᯦ᯧᯨᯩᯪᯫᯬᯭᯮᯯᯰᯱ᯲᯳᯴᯵᯶᯷᯸᯹᯺᯻᯼᯽᯾᯿"
    \o "ᲀᲁᲂᲃᲄᲅᲆᲇᲈᲉᲊ᲋᲌᲍᲎᲏ᲐᲑᲒᲓᲔᲕᲖᲗᲘᲙᲚᲛᲜᲝᲞᲟᲠᲡᲢᲣᲤᲥᲦᲧᲨᲩᲪᲫᲬᲭᲮᲯᲰᲱᲲᲳᲴᲵᲶᲷᲸᲹᲺ᲻᲼ᲽᲾᲿ᳀᳁᳂᳃᳄᳅᳆᳇᳈᳉᳊᳋᳌᳍᳎᳏᳐᳑᳒᳓᳔᳕᳖᳗᳘᳙᳜᳝᳞᳟᳚᳛᳠᳡᳢᳣᳤᳥᳦᳧᳨ᳩᳪᳫᳬ᳭ᳮᳯᳰᳱᳲᳳ᳴ᳵᳶ᳷᳸᳹ᳺ᳻᳼᳽᳾᳿"
    \o "ᶀᶁᶂᶃᶄᶅᶆᶇᶈᶉᶊᶋᶌᶍᶎᶏᶐᶑᶒᶓᶔᶕᶖᶗᶘᶙᶚᶛᶜᶝᶞᶟᶠᶡᶢᶣᶤᶥᶦᶧᶨᶩᶪᶫᶬᶭᶮᶯᶰᶱᶲᶳᶴᶵᶶᶷᶸᶹᶺᶻᶼᶽᶾᶿ᷐᷎᷺᷂᷊᷏᷹᷽᷿᷷᷸᷀᷁᷃᷄᷅᷆᷇᷈᷉᷋᷌᷑᷒ᷓᷔᷕᷖᷗᷘᷙᷚᷛᷜᷝᷞᷟᷠᷡᷢᷣᷤᷥᷦᷧᷨᷩᷪᷫᷬᷭᷮᷯᷰᷱᷲᷳᷴ᷵᷻᷾᷶᷼᷍"
    \o "ẀẁẂẃẄẅẆẇẈẉẊẋẌẍẎẏẐẑẒẓẔẕẖẗẘẙẚẛẜẝẞẟẠạẢảẤấẦầẨẩẪẫẬậẮắẰằẲẳẴẵẶặẸẹẺẻẼẽẾếỀềỂểỄễỆệỈỉỊịỌọỎỏỐốỒồỔổỖỗỘộỚớỜờỞởỠỡỢợỤụỦủỨứỪừỬửỮữỰựỲỳỴỵỶỷỸỹỺỻỼỽỾỿ"
    \o "ᾀᾁᾂᾃᾄᾅᾆᾇᾈᾉᾊᾋᾌᾍᾎᾏᾐᾑᾒᾓᾔᾕᾖᾗᾘᾙᾚᾛᾜᾝᾞᾟᾠᾡᾢᾣᾤᾥᾦᾧᾨᾩᾪᾫᾬᾭᾮᾯᾰᾱᾲᾳᾴ᾵ᾶᾷᾸᾹᾺΆᾼ᾽ι᾿῀῁ῂῃῄ῅ῆῇῈΈῊΉῌ῍῎῏ῐῑῒΐ῔῕ῖῗῘῙῚΊ῜῝῞῟ῠῡῢΰῤῥῦῧῨῩῪΎῬ῭΅`῰῱ῲῳῴ῵ῶῷῸΌῺΏῼ´῾῿"
    \o "₀₁₂₃₄₅₆₇₈₉₊₋₌₍₎₏ₐₑₒₓₔₕₖₗₘₙₚₛₜ₝₞₟₠₡₢₣₤₥₦₧₨₩₪₫€₭₮₯₰₱₲₳₴₵₶₷₸₹₺₻₼₽₾₿⃀⃁⃂⃃⃄⃅⃆⃇⃈⃉⃊⃋⃌⃍⃎⃏⃒⃓⃘⃙⃚⃐⃑⃔⃕⃖⃗⃛⃜⃝⃞⃟⃠⃡⃢⃣⃤⃥⃦⃪⃫⃨⃬⃭⃮⃯⃧⃩⃰⃱⃲⃳⃴⃵⃶⃷⃸⃹⃺⃻⃼⃽⃾⃿"
    \o "ↀↁↂↃↄↅↆↇↈ↉↊↋↌↍↎↏←↑→↓↔↕↖↗↘↙↚↛↜↝↞↟↠↡↢↣↤↥↦↧↨↩↪↫↬↭↮↯↰↱↲↳↴↵↶↷↸↹↺↻↼↽↾↿⇀⇁⇂⇃⇄⇅⇆⇇⇈⇉⇊⇋⇌⇍⇎⇏⇐⇑⇒⇓⇔⇕⇖⇗⇘⇙⇚⇛⇜⇝⇞⇟⇠⇡⇢⇣⇤⇥⇦⇧⇨⇩⇪⇫⇬⇭⇮⇯⇰⇱⇲⇳⇴⇵⇶⇷⇸⇹⇺⇻⇼⇽⇾⇿"
    \o "⊀⊁⊂⊃⊄⊅⊆⊇⊈⊉⊊⊋⊌⊍⊎⊏⊐⊑⊒⊓⊔⊕⊖⊗⊘⊙⊚⊛⊜⊝⊞⊟⊠⊡⊢⊣⊤⊥⊦⊧⊨⊩⊪⊫⊬⊭⊮⊯⊰⊱⊲⊳⊴⊵⊶⊷⊸⊹⊺⊻⊼⊽⊾⊿⋀⋁⋂⋃⋄⋅⋆⋇⋈⋉⋊⋋⋌⋍⋎⋏⋐⋑⋒⋓⋔⋕⋖⋗⋘⋙⋚⋛⋜⋝⋞⋟⋠⋡⋢⋣⋤⋥⋦⋧⋨⋩⋪⋫⋬⋭⋮⋯⋰⋱⋲⋳⋴⋵⋶⋷⋸⋹⋺⋻⋼⋽⋾⋿"
    \o "⎀⎁⎂⎃⎄⎅⎆⎇⎈⎉⎊⎋⎌⎍⎎⎏⎐⎑⎒⎓⎔⎕⎖⎗⎘⎙⎚⎛⎜⎝⎞⎟⎠⎡⎢⎣⎤⎥⎦⎧⎨⎩⎪⎫⎬⎭⎮⎯⎰⎱⎲⎳⎴⎵⎶⎷⎸⎹⎺⎻⎼⎽⎾⎿⏀⏁⏂⏃⏄⏅⏆⏇⏈⏉⏊⏋⏌⏍⏎⏏⏐⏑⏒⏓⏔⏕⏖⏗⏘⏙⏚⏛⏜⏝⏞⏟⏠⏡⏢⏣⏤⏥⏦⏧⏨⏩⏪⏫⏬⏭⏮⏯⏰⏱⏲⏳⏴⏵⏶⏷⏸⏹⏺⏻⏼⏽⏾⏿"
    \o "⒀⒁⒂⒃⒄⒅⒆⒇⒈⒉⒊⒋⒌⒍⒎⒏⒐⒑⒒⒓⒔⒕⒖⒗⒘⒙⒚⒛⒜⒝⒞⒟⒠⒡⒢⒣⒤⒥⒦⒧⒨⒩⒪⒫⒬⒭⒮⒯⒰⒱⒲⒳⒴⒵ⒶⒷⒸⒹⒺⒻⒼⒽⒾⒿⓀⓁⓂⓃⓄⓅⓆⓇⓈⓉⓊⓋⓌⓍⓎⓏⓐⓑⓒⓓⓔⓕⓖⓗⓘⓙⓚⓛⓜⓝⓞⓟⓠⓡⓢⓣⓤⓥⓦⓧⓨⓩ⓪⓫⓬⓭⓮⓯⓰⓱⓲⓳⓴⓵⓶⓷⓸⓹⓺⓻⓼⓽⓾⓿"
    \o "▀▁▂▃▄▅▆▇█▉▊▋▌▍▎▏▐░▒▓▔▕▖▗▘▙▚▛▜▝▞▟■□▢▣▤▥▦▧▨▩▪▫▬▭▮▯▰▱▲△▴▵▶▷▸▹►▻▼▽▾▿◀◁◂◃◄◅◆◇◈◉◊○◌◍◎●◐◑◒◓◔◕◖◗◘◙◚◛◜◝◞◟◠◡◢◣◤◥◦◧◨◩◪◫◬◭◮◯◰◱◲◳◴◵◶◷◸◹◺◻◼◽◾◿"
    \o "⚀⚁⚂⚃⚄⚅⚆⚇⚈⚉⚊⚋⚌⚍⚎⚏⚐⚑⚒⚓⚔⚕⚖⚗⚘⚙⚚⚛⚜⚝⚞⚟⚠⚡⚢⚣⚤⚥⚦⚧⚨⚩⚪⚫⚬⚭⚮⚯⚰⚱⚲⚳⚴⚵⚶⚷⚸⚹⚺⚻⚼⚽⚾⚿⛀⛁⛂⛃⛄⛅⛆⛇⛈⛉⛊⛋⛌⛍⛎⛏⛐⛑⛒⛓⛔⛕⛖⛗⛘⛙⛚⛛⛜⛝⛞⛟⛠⛡⛢⛣⛤⛥⛦⛧⛨⛩⛪⛫⛬⛭⛮⛯⛰⛱⛲⛳⛴⛵⛶⛷⛸⛹⛺⛻⛼⛽⛾⛿"
    \o "➀➁➂➃➄➅➆➇➈➉➊➋➌➍➎➏➐➑➒➓➔➕➖➗➘➙➚➛➜➝➞➟➠➡➢➣➤➥➦➧➨➩➪➫➬➭➮➯➰➱➲➳➴➵➶➷➸➹➺➻➼➽➾➿⟀⟁⟂⟃⟄⟅⟆⟇⟈⟉⟊⟋⟌⟍⟎⟏⟐⟑⟒⟓⟔⟕⟖⟗⟘⟙⟚⟛⟜⟝⟞⟟⟠⟡⟢⟣⟤⟥⟦⟧⟨⟩⟪⟫⟬⟭⟮⟯⟰⟱⟲⟳⟴⟵⟶⟷⟸⟹⟺⟻⟼⟽⟾⟿"
    \o "⢀⢁⢂⢃⢄⢅⢆⢇⢈⢉⢊⢋⢌⢍⢎⢏⢐⢑⢒⢓⢔⢕⢖⢗⢘⢙⢚⢛⢜⢝⢞⢟⢠⢡⢢⢣⢤⢥⢦⢧⢨⢩⢪⢫⢬⢭⢮⢯⢰⢱⢲⢳⢴⢵⢶⢷⢸⢹⢺⢻⢼⢽⢾⢿⣀⣁⣂⣃⣄⣅⣆⣇⣈⣉⣊⣋⣌⣍⣎⣏⣐⣑⣒⣓⣔⣕⣖⣗⣘⣙⣚⣛⣜⣝⣞⣟⣠⣡⣢⣣⣤⣥⣦⣧⣨⣩⣪⣫⣬⣭⣮⣯⣰⣱⣲⣳⣴⣵⣶⣷⣸⣹⣺⣻⣼⣽⣾⣿"
    \o "⦀⦁⦂⦃⦄⦅⦆⦇⦈⦉⦊⦋⦌⦍⦎⦏⦐⦑⦒⦓⦔⦕⦖⦗⦘⦙⦚⦛⦜⦝⦞⦟⦠⦡⦢⦣⦤⦥⦦⦧⦨⦩⦪⦫⦬⦭⦮⦯⦰⦱⦲⦳⦴⦵⦶⦷⦸⦹⦺⦻⦼⦽⦾⦿⧀⧁⧂⧃⧄⧅⧆⧇⧈⧉⧊⧋⧌⧍⧎⧏⧐⧑⧒⧓⧔⧕⧖⧗⧘⧙⧚⧛⧜⧝⧞⧟⧠⧡⧢⧣⧤⧥⧦⧧⧨⧩⧪⧫⧬⧭⧮⧯⧰⧱⧲⧳⧴⧵⧶⧷⧸⧹⧺⧻⧼⧽⧾⧿"
    \o "⪀⪁⪂⪃⪄⪅⪆⪇⪈⪉⪊⪋⪌⪍⪎⪏⪐⪑⪒⪓⪔⪕⪖⪗⪘⪙⪚⪛⪜⪝⪞⪟⪠⪡⪢⪣⪤⪥⪦⪧⪨⪩⪪⪫⪬⪭⪮⪯⪰⪱⪲⪳⪴⪵⪶⪷⪸⪹⪺⪻⪼⪽⪾⪿⫀⫁⫂⫃⫄⫅⫆⫇⫈⫉⫊⫋⫌⫍⫎⫏⫐⫑⫒⫓⫔⫕⫖⫗⫘⫙⫚⫛⫝̸⫝⫞⫟⫠⫡⫢⫣⫤⫥⫦⫧⫨⫩⫪⫫⫬⫭⫮⫯⫰⫱⫲⫳⫴⫵⫶⫷⫸⫹⫺⫻⫼⫽⫾⫿"
    \o "⮀⮁⮂⮃⮄⮅⮆⮇⮈⮉⮊⮋⮌⮍⮎⮏⮐⮑⮒⮓⮔⮕⮖⮗⮘⮙⮚⮛⮜⮝⮞⮟⮠⮡⮢⮣⮤⮥⮦⮧⮨⮩⮪⮫⮬⮭⮮⮯⮰⮱⮲⮳⮴⮵⮶⮷⮸⮹⮺⮻⮼⮽⮾⮿⯀⯁⯂⯃⯄⯅⯆⯇⯈⯉⯊⯋⯌⯍⯎⯏⯐⯑⯒⯓⯔⯕⯖⯗⯘⯙⯚⯛⯜⯝⯞⯟⯠⯡⯢⯣⯤⯥⯦⯧⯨⯩⯪⯫⯬⯭⯮⯯⯰⯱⯲⯳⯴⯵⯶⯷⯸⯹⯺⯻⯼⯽⯾⯿"
    \o "ⲀⲁⲂⲃⲄⲅⲆⲇⲈⲉⲊⲋⲌⲍⲎⲏⲐⲑⲒⲓⲔⲕⲖⲗⲘⲙⲚⲛⲜⲝⲞⲟⲠⲡⲢⲣⲤⲥⲦⲧⲨⲩⲪⲫⲬⲭⲮⲯⲰⲱⲲⲳⲴⲵⲶⲷⲸⲹⲺⲻⲼⲽⲾⲿⳀⳁⳂⳃⳄⳅⳆⳇⳈⳉⳊⳋⳌⳍⳎⳏⳐⳑⳒⳓⳔⳕⳖⳗⳘⳙⳚⳛⳜⳝⳞⳟⳠⳡⳢⳣⳤ⳥⳦⳧⳨⳩⳪ⳫⳬⳭⳮ⳯⳰⳱Ⳳⳳ⳴⳵⳶⳷⳸⳹⳺⳻⳼⳽⳾⳿"
    \o "ⶀⶁⶂⶃⶄⶅⶆⶇⶈⶉⶊⶋⶌⶍⶎⶏⶐⶑⶒⶓⶔⶕⶖ⶗⶘⶙⶚⶛⶜⶝⶞⶟ⶠⶡⶢⶣⶤⶥⶦ⶧ⶨⶩⶪⶫⶬⶭⶮ⶯ⶰⶱⶲⶳⶴⶵⶶ⶷ⶸⶹⶺⶻⶼⶽⶾ⶿ⷀⷁⷂⷃⷄⷅⷆ⷇ⷈⷉⷊⷋⷌⷍⷎ⷏ⷐⷑⷒⷓⷔⷕⷖ⷗ⷘⷙⷚⷛⷜⷝⷞ⷟ⷠⷡⷢⷣⷤⷥⷦⷧⷨⷩⷪⷫⷬⷭⷮⷯⷰⷱⷲⷳⷴⷵⷶⷷⷸⷹⷺⷻⷼⷽⷾⷿ"
    \o "⺀⺁⺂⺃⺄⺅⺆⺇⺈⺉⺊⺋⺌⺍⺎⺏⺐⺑⺒⺓⺔⺕⺖⺗⺘⺙⺚⺛⺜⺝⺞⺟⺠⺡⺢⺣⺤⺥⺦⺧⺨⺩⺪⺫⺬⺭⺮⺯⺰⺱⺲⺳⺴⺵⺶⺷⺸⺹⺺⺻⺼⺽⺾⺿⻀⻁⻂⻃⻄⻅⻆⻇⻈⻉⻊⻋⻌⻍⻎⻏⻐⻑⻒⻓⻔⻕⻖⻗⻘⻙⻚⻛⻜⻝⻞⻟⻠⻡⻢⻣⻤⻥⻦⻧⻨⻩⻪⻫⻬⻭⻮⻯⻰⻱⻲⻳⻴⻵⻶⻷⻸⻹⻺⻻⻼⻽⻾⻿"
    \o "⾀⾁⾂⾃⾄⾅⾆⾇⾈⾉⾊⾋⾌⾍⾎⾏⾐⾑⾒⾓⾔⾕⾖⾗⾘⾙⾚⾛⾜⾝⾞⾟⾠⾡⾢⾣⾤⾥⾦⾧⾨⾩⾪⾫⾬⾭⾮⾯⾰⾱⾲⾳⾴⾵⾶⾷⾸⾹⾺⾻⾼⾽⾾⾿⿀⿁⿂⿃⿄⿅⿆⿇⿈⿉⿊⿋⿌⿍⿎⿏⿐⿑⿒⿓⿔⿕⿖⿗⿘⿙⿚⿛⿜⿝⿞⿟⿠⿡⿢⿣⿤⿥⿦⿧⿨⿩⿪⿫⿬⿭⿮⿯⿰⿱⿲⿳⿴⿵⿶⿷⿸⿹⿺⿻⿼⿽⿾⿿"
    \o "むめもゃやゅゆょよらりるれろゎわゐゑをんゔゕゖ゗゘゙゚゛゜ゝゞゟ゠ァアィイゥウェエォオカガキギクグケゲコゴサザシジスズセゼソゾタダチヂッツヅテデトドナニヌネノハバパヒビピフブプヘベペホボポマミムメモャヤュユョヨラリルレロヮワヰヱヲンヴヵヶヷヸヹヺ・ーヽヾヿ"
    \o "ㆀㆁㆂㆃㆄㆅㆆㆇㆈㆉㆊㆋㆌㆍㆎ㆏㆐㆑㆒㆓㆔㆕㆖㆗㆘㆙㆚㆛㆜㆝㆞㆟ㆠㆡㆢㆣㆤㆥㆦㆧㆨㆩㆪㆫㆬㆭㆮㆯㆰㆱㆲㆳㆴㆵㆶㆷㆸㆹㆺㆻㆼㆽㆾㆿ㇀㇁㇂㇃㇄㇅㇆㇇㇈㇉㇊㇋㇌㇍㇎㇏㇐㇑㇒㇓㇔㇕㇖㇗㇘㇙㇚㇛㇜㇝㇞㇟㇠㇡㇢㇣㇤㇥㇦㇧㇨㇩㇪㇫㇬㇭㇮㇯ㇰㇱㇲㇳㇴㇵㇶㇷㇸㇹㇺㇻㇼㇽㇾㇿ"
    \o "㊀㊁㊂㊃㊄㊅㊆㊇㊈㊉㊊㊋㊌㊍㊎㊏㊐㊑㊒㊓㊔㊕㊖㊗㊘㊙㊚㊛㊜㊝㊞㊟㊠㊡㊢㊣㊤㊥㊦㊧㊨㊩㊪㊫㊬㊭㊮㊯㊰㊱㊲㊳㊴㊵㊶㊷㊸㊹㊺㊻㊼㊽㊾㊿㋀㋁㋂㋃㋄㋅㋆㋇㋈㋉㋊㋋㋌㋍㋎㋏㋐㋑㋒㋓㋔㋕㋖㋗㋘㋙㋚㋛㋜㋝㋞㋟㋠㋡㋢㋣㋤㋥㋦㋧㋨㋩㋪㋫㋬㋭㋮㋯㋰㋱㋲㋳㋴㋵㋶㋷㋸㋹㋺㋻㋼㋽㋾㋿"
    \o "㎀㎁㎂㎃㎄㎅㎆㎇㎈㎉㎊㎋㎌㎍㎎㎏㎐㎑㎒㎓㎔㎕㎖㎗㎘㎙㎚㎛㎜㎝㎞㎟㎠㎡㎢㎣㎤㎥㎦㎧㎨㎩㎪㎫㎬㎭㎮㎯㎰㎱㎲㎳㎴㎵㎶㎷㎸㎹㎺㎻㎼㎽㎾㎿㏀㏁㏂㏃㏄㏅㏆㏇㏈㏉㏊㏋㏌㏍㏎㏏㏐㏑㏒㏓㏔㏕㏖㏗㏘㏙㏚㏛㏜㏝㏞㏟㏠㏡㏢㏣㏤㏥㏦㏧㏨㏩㏪㏫㏬㏭㏮㏯㏰㏱㏲㏳㏴㏵㏶㏷㏸㏹㏺㏻㏼㏽㏾㏿"
    \o "㒀㒁㒂㒃㒄㒅㒆㒇㒈㒉㒊㒋㒌㒍㒎㒏㒐㒑㒒㒓㒔㒕㒖㒗㒘㒙㒚㒛㒜㒝㒞㒟㒠㒡㒢㒣㒤㒥㒦㒧㒨㒩㒪㒫㒬㒭㒮㒯㒰㒱㒲㒳㒴㒵㒶㒷㒸㒹㒺㒻㒼㒽㒾㒿㓀㓁㓂㓃㓄㓅㓆㓇㓈㓉㓊㓋㓌㓍㓎㓏㓐㓑㓒㓓㓔㓕㓖㓗㓘㓙㓚㓛㓜㓝㓞㓟㓠㓡㓢㓣㓤㓥㓦㓧㓨㓩㓪㓫㓬㓭㓮㓯㓰㓱㓲㓳㓴㓵㓶㓷㓸㓹㓺㓻㓼㓽㓾㓿"
    \o "㖀㖁㖂㖃㖄㖅㖆㖇㖈㖉㖊㖋㖌㖍㖎㖏㖐㖑㖒㖓㖔㖕㖖㖗㖘㖙㖚㖛㖜㖝㖞㖟㖠㖡㖢㖣㖤㖥㖦㖧㖨㖩㖪㖫㖬㖭㖮㖯㖰㖱㖲㖳㖴㖵㖶㖷㖸㖹㖺㖻㖼㖽㖾㖿㗀㗁㗂㗃㗄㗅㗆㗇㗈㗉㗊㗋㗌㗍㗎㗏㗐㗑㗒㗓㗔㗕㗖㗗㗘㗙㗚㗛㗜㗝㗞㗟㗠㗡㗢㗣㗤㗥㗦㗧㗨㗩㗪㗫㗬㗭㗮㗯㗰㗱㗲㗳㗴㗵㗶㗷㗸㗹㗺㗻㗼㗽㗾㗿"
    \o "㚀㚁㚂㚃㚄㚅㚆㚇㚈㚉㚊㚋㚌㚍㚎㚏㚐㚑㚒㚓㚔㚕㚖㚗㚘㚙㚚㚛㚜㚝㚞㚟㚠㚡㚢㚣㚤㚥㚦㚧㚨㚩㚪㚫㚬㚭㚮㚯㚰㚱㚲㚳㚴㚵㚶㚷㚸㚹㚺㚻㚼㚽㚾㚿㛀㛁㛂㛃㛄㛅㛆㛇㛈㛉㛊㛋㛌㛍㛎㛏㛐㛑㛒㛓㛔㛕㛖㛗㛘㛙㛚㛛㛜㛝㛞㛟㛠㛡㛢㛣㛤㛥㛦㛧㛨㛩㛪㛫㛬㛭㛮㛯㛰㛱㛲㛳㛴㛵㛶㛷㛸㛹㛺㛻㛼㛽㛾㛿"
    \o "㞀㞁㞂㞃㞄㞅㞆㞇㞈㞉㞊㞋㞌㞍㞎㞏㞐㞑㞒㞓㞔㞕㞖㞗㞘㞙㞚㞛㞜㞝㞞㞟㞠㞡㞢㞣㞤㞥㞦㞧㞨㞩㞪㞫㞬㞭㞮㞯㞰㞱㞲㞳㞴㞵㞶㞷㞸㞹㞺㞻㞼㞽㞾㞿㟀㟁㟂㟃㟄㟅㟆㟇㟈㟉㟊㟋㟌㟍㟎㟏㟐㟑㟒㟓㟔㟕㟖㟗㟘㟙㟚㟛㟜㟝㟞㟟㟠㟡㟢㟣㟤㟥㟦㟧㟨㟩㟪㟫㟬㟭㟮㟯㟰㟱㟲㟳㟴㟵㟶㟷㟸㟹㟺㟻㟼㟽㟾㟿"
    \o "㢀㢁㢂㢃㢄㢅㢆㢇㢈㢉㢊㢋㢌㢍㢎㢏㢐㢑㢒㢓㢔㢕㢖㢗㢘㢙㢚㢛㢜㢝㢞㢟㢠㢡㢢㢣㢤㢥㢦㢧㢨㢩㢪㢫㢬㢭㢮㢯㢰㢱㢲㢳㢴㢵㢶㢷㢸㢹㢺㢻㢼㢽㢾㢿㣀㣁㣂㣃㣄㣅㣆㣇㣈㣉㣊㣋㣌㣍㣎㣏㣐㣑㣒㣓㣔㣕㣖㣗㣘㣙㣚㣛㣜㣝㣞㣟㣠㣡㣢㣣㣤㣥㣦㣧㣨㣩㣪㣫㣬㣭㣮㣯㣰㣱㣲㣳㣴㣵㣶㣷㣸㣹㣺㣻㣼㣽㣾㣿"
    \o "㦀㦁㦂㦃㦄㦅㦆㦇㦈㦉㦊㦋㦌㦍㦎㦏㦐㦑㦒㦓㦔㦕㦖㦗㦘㦙㦚㦛㦜㦝㦞㦟㦠㦡㦢㦣㦤㦥㦦㦧㦨㦩㦪㦫㦬㦭㦮㦯㦰㦱㦲㦳㦴㦵㦶㦷㦸㦹㦺㦻㦼㦽㦾㦿㧀㧁㧂㧃㧄㧅㧆㧇㧈㧉㧊㧋㧌㧍㧎㧏㧐㧑㧒㧓㧔㧕㧖㧗㧘㧙㧚㧛㧜㧝㧞㧟㧠㧡㧢㧣㧤㧥㧦㧧㧨㧩㧪㧫㧬㧭㧮㧯㧰㧱㧲㧳㧴㧵㧶㧷㧸㧹㧺㧻㧼㧽㧾㧿"
    \o "㪀㪁㪂㪃㪄㪅㪆㪇㪈㪉㪊㪋㪌㪍㪎㪏㪐㪑㪒㪓㪔㪕㪖㪗㪘㪙㪚㪛㪜㪝㪞㪟㪠㪡㪢㪣㪤㪥㪦㪧㪨㪩㪪㪫㪬㪭㪮㪯㪰㪱㪲㪳㪴㪵㪶㪷㪸㪹㪺㪻㪼㪽㪾㪿㫀㫁㫂㫃㫄㫅㫆㫇㫈㫉㫊㫋㫌㫍㫎㫏㫐㫑㫒㫓㫔㫕㫖㫗㫘㫙㫚㫛㫜㫝㫞㫟㫠㫡㫢㫣㫤㫥㫦㫧㫨㫩㫪㫫㫬㫭㫮㫯㫰㫱㫲㫳㫴㫵㫶㫷㫸㫹㫺㫻㫼㫽㫾㫿"
    \o "㮀㮁㮂㮃㮄㮅㮆㮇㮈㮉㮊㮋㮌㮍㮎㮏㮐㮑㮒㮓㮔㮕㮖㮗㮘㮙㮚㮛㮜㮝㮞㮟㮠㮡㮢㮣㮤㮥㮦㮧㮨㮩㮪㮫㮬㮭㮮㮯㮰㮱㮲㮳㮴㮵㮶㮷㮸㮹㮺㮻㮼㮽㮾㮿㯀㯁㯂㯃㯄㯅㯆㯇㯈㯉㯊㯋㯌㯍㯎㯏㯐㯑㯒㯓㯔㯕㯖㯗㯘㯙㯚㯛㯜㯝㯞㯟㯠㯡㯢㯣㯤㯥㯦㯧㯨㯩㯪㯫㯬㯭㯮㯯㯰㯱㯲㯳㯴㯵㯶㯷㯸㯹㯺㯻㯼㯽㯾㯿"
    \o "㲀㲁㲂㲃㲄㲅㲆㲇㲈㲉㲊㲋㲌㲍㲎㲏㲐㲑㲒㲓㲔㲕㲖㲗㲘㲙㲚㲛㲜㲝㲞㲟㲠㲡㲢㲣㲤㲥㲦㲧㲨㲩㲪㲫㲬㲭㲮㲯㲰㲱㲲㲳㲴㲵㲶㲷㲸㲹㲺㲻㲼㲽㲾㲿㳀㳁㳂㳃㳄㳅㳆㳇㳈㳉㳊㳋㳌㳍㳎㳏㳐㳑㳒㳓㳔㳕㳖㳗㳘㳙㳚㳛㳜㳝㳞㳟㳠㳡㳢㳣㳤㳥㳦㳧㳨㳩㳪㳫㳬㳭㳮㳯㳰㳱㳲㳳㳴㳵㳶㳷㳸㳹㳺㳻㳼㳽㳾㳿"
    \o "㶀㶁㶂㶃㶄㶅㶆㶇㶈㶉㶊㶋㶌㶍㶎㶏㶐㶑㶒㶓㶔㶕㶖㶗㶘㶙㶚㶛㶜㶝㶞㶟㶠㶡㶢㶣㶤㶥㶦㶧㶨㶩㶪㶫㶬㶭㶮㶯㶰㶱㶲㶳㶴㶵㶶㶷㶸㶹㶺㶻㶼㶽㶾㶿㷀㷁㷂㷃㷄㷅㷆㷇㷈㷉㷊㷋㷌㷍㷎㷏㷐㷑㷒㷓㷔㷕㷖㷗㷘㷙㷚㷛㷜㷝㷞㷟㷠㷡㷢㷣㷤㷥㷦㷧㷨㷩㷪㷫㷬㷭㷮㷯㷰㷱㷲㷳㷴㷵㷶㷷㷸㷹㷺㷻㷼㷽㷾㷿"
    \o "㺀㺁㺂㺃㺄㺅㺆㺇㺈㺉㺊㺋㺌㺍㺎㺏㺐㺑㺒㺓㺔㺕㺖㺗㺘㺙㺚㺛㺜㺝㺞㺟㺠㺡㺢㺣㺤㺥㺦㺧㺨㺩㺪㺫㺬㺭㺮㺯㺰㺱㺲㺳㺴㺵㺶㺷㺸㺹㺺㺻㺼㺽㺾㺿㻀㻁㻂㻃㻄㻅㻆㻇㻈㻉㻊㻋㻌㻍㻎㻏㻐㻑㻒㻓㻔㻕㻖㻗㻘㻙㻚㻛㻜㻝㻞㻟㻠㻡㻢㻣㻤㻥㻦㻧㻨㻩㻪㻫㻬㻭㻮㻯㻰㻱㻲㻳㻴㻵㻶㻷㻸㻹㻺㻻㻼㻽㻾㻿"
    \o "㾀㾁㾂㾃㾄㾅㾆㾇㾈㾉㾊㾋㾌㾍㾎㾏㾐㾑㾒㾓㾔㾕㾖㾗㾘㾙㾚㾛㾜㾝㾞㾟㾠㾡㾢㾣㾤㾥㾦㾧㾨㾩㾪㾫㾬㾭㾮㾯㾰㾱㾲㾳㾴㾵㾶㾷㾸㾹㾺㾻㾼㾽㾾㾿㿀㿁㿂㿃㿄㿅㿆㿇㿈㿉㿊㿋㿌㿍㿎㿏㿐㿑㿒㿓㿔㿕㿖㿗㿘㿙㿚㿛㿜㿝㿞㿟㿠㿡㿢㿣㿤㿥㿦㿧㿨㿩㿪㿫㿬㿭㿮㿯㿰㿱㿲㿳㿴㿵㿶㿷㿸㿹㿺㿻㿼㿽㿾㿿"
    \o "䂀䂁䂂䂃䂄䂅䂆䂇䂈䂉䂊䂋䂌䂍䂎䂏䂐䂑䂒䂓䂔䂕䂖䂗䂘䂙䂚䂛䂜䂝䂞䂟䂠䂡䂢䂣䂤䂥䂦䂧䂨䂩䂪䂫䂬䂭䂮䂯䂰䂱䂲䂳䂴䂵䂶䂷䂸䂹䂺䂻䂼䂽䂾䂿䃀䃁䃂䃃䃄䃅䃆䃇䃈䃉䃊䃋䃌䃍䃎䃏䃐䃑䃒䃓䃔䃕䃖䃗䃘䃙䃚䃛䃜䃝䃞䃟䃠䃡䃢䃣䃤䃥䃦䃧䃨䃩䃪䃫䃬䃭䃮䃯䃰䃱䃲䃳䃴䃵䃶䃷䃸䃹䃺䃻䃼䃽䃾䃿"
    \o "䆀䆁䆂䆃䆄䆅䆆䆇䆈䆉䆊䆋䆌䆍䆎䆏䆐䆑䆒䆓䆔䆕䆖䆗䆘䆙䆚䆛䆜䆝䆞䆟䆠䆡䆢䆣䆤䆥䆦䆧䆨䆩䆪䆫䆬䆭䆮䆯䆰䆱䆲䆳䆴䆵䆶䆷䆸䆹䆺䆻䆼䆽䆾䆿䇀䇁䇂䇃䇄䇅䇆䇇䇈䇉䇊䇋䇌䇍䇎䇏䇐䇑䇒䇓䇔䇕䇖䇗䇘䇙䇚䇛䇜䇝䇞䇟䇠䇡䇢䇣䇤䇥䇦䇧䇨䇩䇪䇫䇬䇭䇮䇯䇰䇱䇲䇳䇴䇵䇶䇷䇸䇹䇺䇻䇼䇽䇾䇿"
    \o "䊀䊁䊂䊃䊄䊅䊆䊇䊈䊉䊊䊋䊌䊍䊎䊏䊐䊑䊒䊓䊔䊕䊖䊗䊘䊙䊚䊛䊜䊝䊞䊟䊠䊡䊢䊣䊤䊥䊦䊧䊨䊩䊪䊫䊬䊭䊮䊯䊰䊱䊲䊳䊴䊵䊶䊷䊸䊹䊺䊻䊼䊽䊾䊿䋀䋁䋂䋃䋄䋅䋆䋇䋈䋉䋊䋋䋌䋍䋎䋏䋐䋑䋒䋓䋔䋕䋖䋗䋘䋙䋚䋛䋜䋝䋞䋟䋠䋡䋢䋣䋤䋥䋦䋧䋨䋩䋪䋫䋬䋭䋮䋯䋰䋱䋲䋳䋴䋵䋶䋷䋸䋹䋺䋻䋼䋽䋾䋿"
    \o "䎀䎁䎂䎃䎄䎅䎆䎇䎈䎉䎊䎋䎌䎍䎎䎏䎐䎑䎒䎓䎔䎕䎖䎗䎘䎙䎚䎛䎜䎝䎞䎟䎠䎡䎢䎣䎤䎥䎦䎧䎨䎩䎪䎫䎬䎭䎮䎯䎰䎱䎲䎳䎴䎵䎶䎷䎸䎹䎺䎻䎼䎽䎾䎿䏀䏁䏂䏃䏄䏅䏆䏇䏈䏉䏊䏋䏌䏍䏎䏏䏐䏑䏒䏓䏔䏕䏖䏗䏘䏙䏚䏛䏜䏝䏞䏟䏠䏡䏢䏣䏤䏥䏦䏧䏨䏩䏪䏫䏬䏭䏮䏯䏰䏱䏲䏳䏴䏵䏶䏷䏸䏹䏺䏻䏼䏽䏾䏿"
    \o "䒀䒁䒂䒃䒄䒅䒆䒇䒈䒉䒊䒋䒌䒍䒎䒏䒐䒑䒒䒓䒔䒕䒖䒗䒘䒙䒚䒛䒜䒝䒞䒟䒠䒡䒢䒣䒤䒥䒦䒧䒨䒩䒪䒫䒬䒭䒮䒯䒰䒱䒲䒳䒴䒵䒶䒷䒸䒹䒺䒻䒼䒽䒾䒿䓀䓁䓂䓃䓄䓅䓆䓇䓈䓉䓊䓋䓌䓍䓎䓏䓐䓑䓒䓓䓔䓕䓖䓗䓘䓙䓚䓛䓜䓝䓞䓟䓠䓡䓢䓣䓤䓥䓦䓧䓨䓩䓪䓫䓬䓭䓮䓯䓰䓱䓲䓳䓴䓵䓶䓷䓸䓹䓺䓻䓼䓽䓾䓿"
    \o "䖀䖁䖂䖃䖄䖅䖆䖇䖈䖉䖊䖋䖌䖍䖎䖏䖐䖑䖒䖓䖔䖕䖖䖗䖘䖙䖚䖛䖜䖝䖞䖟䖠䖡䖢䖣䖤䖥䖦䖧䖨䖩䖪䖫䖬䖭䖮䖯䖰䖱䖲䖳䖴䖵䖶䖷䖸䖹䖺䖻䖼䖽䖾䖿䗀䗁䗂䗃䗄䗅䗆䗇䗈䗉䗊䗋䗌䗍䗎䗏䗐䗑䗒䗓䗔䗕䗖䗗䗘䗙䗚䗛䗜䗝䗞䗟䗠䗡䗢䗣䗤䗥䗦䗧䗨䗩䗪䗫䗬䗭䗮䗯䗰䗱䗲䗳䗴䗵䗶䗷䗸䗹䗺䗻䗼䗽䗾䗿"
    \o "䚀䚁䚂䚃䚄䚅䚆䚇䚈䚉䚊䚋䚌䚍䚎䚏䚐䚑䚒䚓䚔䚕䚖䚗䚘䚙䚚䚛䚜䚝䚞䚟䚠䚡䚢䚣䚤䚥䚦䚧䚨䚩䚪䚫䚬䚭䚮䚯䚰䚱䚲䚳䚴䚵䚶䚷䚸䚹䚺䚻䚼䚽䚾䚿䛀䛁䛂䛃䛄䛅䛆䛇䛈䛉䛊䛋䛌䛍䛎䛏䛐䛑䛒䛓䛔䛕䛖䛗䛘䛙䛚䛛䛜䛝䛞䛟䛠䛡䛢䛣䛤䛥䛦䛧䛨䛩䛪䛫䛬䛭䛮䛯䛰䛱䛲䛳䛴䛵䛶䛷䛸䛹䛺䛻䛼䛽䛾䛿"
    \o "䞀䞁䞂䞃䞄䞅䞆䞇䞈䞉䞊䞋䞌䞍䞎䞏䞐䞑䞒䞓䞔䞕䞖䞗䞘䞙䞚䞛䞜䞝䞞䞟䞠䞡䞢䞣䞤䞥䞦䞧䞨䞩䞪䞫䞬䞭䞮䞯䞰䞱䞲䞳䞴䞵䞶䞷䞸䞹䞺䞻䞼䞽䞾䞿䟀䟁䟂䟃䟄䟅䟆䟇䟈䟉䟊䟋䟌䟍䟎䟏䟐䟑䟒䟓䟔䟕䟖䟗䟘䟙䟚䟛䟜䟝䟞䟟䟠䟡䟢䟣䟤䟥䟦䟧䟨䟩䟪䟫䟬䟭䟮䟯䟰䟱䟲䟳䟴䟵䟶䟷䟸䟹䟺䟻䟼䟽䟾䟿"
    \o "䢀䢁䢂䢃䢄䢅䢆䢇䢈䢉䢊䢋䢌䢍䢎䢏䢐䢑䢒䢓䢔䢕䢖䢗䢘䢙䢚䢛䢜䢝䢞䢟䢠䢡䢢䢣䢤䢥䢦䢧䢨䢩䢪䢫䢬䢭䢮䢯䢰䢱䢲䢳䢴䢵䢶䢷䢸䢹䢺䢻䢼䢽䢾䢿䣀䣁䣂䣃䣄䣅䣆䣇䣈䣉䣊䣋䣌䣍䣎䣏䣐䣑䣒䣓䣔䣕䣖䣗䣘䣙䣚䣛䣜䣝䣞䣟䣠䣡䣢䣣䣤䣥䣦䣧䣨䣩䣪䣫䣬䣭䣮䣯䣰䣱䣲䣳䣴䣵䣶䣷䣸䣹䣺䣻䣼䣽䣾䣿"
    \o "䦀䦁䦂䦃䦄䦅䦆䦇䦈䦉䦊䦋䦌䦍䦎䦏䦐䦑䦒䦓䦔䦕䦖䦗䦘䦙䦚䦛䦜䦝䦞䦟䦠䦡䦢䦣䦤䦥䦦䦧䦨䦩䦪䦫䦬䦭䦮䦯䦰䦱䦲䦳䦴䦵䦶䦷䦸䦹䦺䦻䦼䦽䦾䦿䧀䧁䧂䧃䧄䧅䧆䧇䧈䧉䧊䧋䧌䧍䧎䧏䧐䧑䧒䧓䧔䧕䧖䧗䧘䧙䧚䧛䧜䧝䧞䧟䧠䧡䧢䧣䧤䧥䧦䧧䧨䧩䧪䧫䧬䧭䧮䧯䧰䧱䧲䧳䧴䧵䧶䧷䧸䧹䧺䧻䧼䧽䧾䧿"
    \o "䪀䪁䪂䪃䪄䪅䪆䪇䪈䪉䪊䪋䪌䪍䪎䪏䪐䪑䪒䪓䪔䪕䪖䪗䪘䪙䪚䪛䪜䪝䪞䪟䪠䪡䪢䪣䪤䪥䪦䪧䪨䪩䪪䪫䪬䪭䪮䪯䪰䪱䪲䪳䪴䪵䪶䪷䪸䪹䪺䪻䪼䪽䪾䪿䫀䫁䫂䫃䫄䫅䫆䫇䫈䫉䫊䫋䫌䫍䫎䫏䫐䫑䫒䫓䫔䫕䫖䫗䫘䫙䫚䫛䫜䫝䫞䫟䫠䫡䫢䫣䫤䫥䫦䫧䫨䫩䫪䫫䫬䫭䫮䫯䫰䫱䫲䫳䫴䫵䫶䫷䫸䫹䫺䫻䫼䫽䫾䫿"
    \o "䮀䮁䮂䮃䮄䮅䮆䮇䮈䮉䮊䮋䮌䮍䮎䮏䮐䮑䮒䮓䮔䮕䮖䮗䮘䮙䮚䮛䮜䮝䮞䮟䮠䮡䮢䮣䮤䮥䮦䮧䮨䮩䮪䮫䮬䮭䮮䮯䮰䮱䮲䮳䮴䮵䮶䮷䮸䮹䮺䮻䮼䮽䮾䮿䯀䯁䯂䯃䯄䯅䯆䯇䯈䯉䯊䯋䯌䯍䯎䯏䯐䯑䯒䯓䯔䯕䯖䯗䯘䯙䯚䯛䯜䯝䯞䯟䯠䯡䯢䯣䯤䯥䯦䯧䯨䯩䯪䯫䯬䯭䯮䯯䯰䯱䯲䯳䯴䯵䯶䯷䯸䯹䯺䯻䯼䯽䯾䯿"
    \o "䲀䲁䲂䲃䲄䲅䲆䲇䲈䲉䲊䲋䲌䲍䲎䲏䲐䲑䲒䲓䲔䲕䲖䲗䲘䲙䲚䲛䲜䲝䲞䲟䲠䲡䲢䲣䲤䲥䲦䲧䲨䲩䲪䲫䲬䲭䲮䲯䲰䲱䲲䲳䲴䲵䲶䲷䲸䲹䲺䲻䲼䲽䲾䲿䳀䳁䳂䳃䳄䳅䳆䳇䳈䳉䳊䳋䳌䳍䳎䳏䳐䳑䳒䳓䳔䳕䳖䳗䳘䳙䳚䳛䳜䳝䳞䳟䳠䳡䳢䳣䳤䳥䳦䳧䳨䳩䳪䳫䳬䳭䳮䳯䳰䳱䳲䳳䳴䳵䳶䳷䳸䳹䳺䳻䳼䳽䳾䳿"
    \o "䶀䶁䶂䶃䶄䶅䶆䶇䶈䶉䶊䶋䶌䶍䶎䶏䶐䶑䶒䶓䶔䶕䶖䶗䶘䶙䶚䶛䶜䶝䶞䶟䶠䶡䶢䶣䶤䶥䶦䶧䶨䶩䶪䶫䶬䶭䶮䶯䶰䶱䶲䶳䶴䶵䶶䶷䶸䶹䶺䶻䶼䶽䶾䶿䷀䷁䷂䷃䷄䷅䷆䷇䷈䷉䷊䷋䷌䷍䷎䷏䷐䷑䷒䷓䷔䷕䷖䷗䷘䷙䷚䷛䷜䷝䷞䷟䷠䷡䷢䷣䷤䷥䷦䷧䷨䷩䷪䷫䷬䷭䷮䷯䷰䷱䷲䷳䷴䷵䷶䷷䷸䷹䷺䷻䷼䷽䷾䷿"
    \o "亀亁亂亃亄亅了亇予争亊事二亍于亏亐云互亓五井亖亗亘亙亚些亜亝亞亟亠亡亢亣交亥亦产亨亩亪享京亭亮亯亰亱亲亳亴亵亶亷亸亹人亻亼亽亾亿什仁仂仃仄仅仆仇仈仉今介仌仍从仏仐仑仒仓仔仕他仗付仙仚仛仜仝仞仟仠仡仢代令以仦仧仨仩仪仫们仭仮仯仰仱仲仳仴仵件价仸仹仺任仼份仾仿"
    \o "侀侁侂侃侄侅來侇侈侉侊例侌侍侎侏侐侑侒侓侔侕侖侗侘侙侚供侜依侞侟侠価侢侣侤侥侦侧侨侩侪侫侬侭侮侯侰侱侲侳侴侵侶侷侸侹侺侻侼侽侾便俀俁係促俄俅俆俇俈俉俊俋俌俍俎俏俐俑俒俓俔俕俖俗俘俙俚俛俜保俞俟俠信俢俣俤俥俦俧俨俩俪俫俬俭修俯俰俱俲俳俴俵俶俷俸俹俺俻俼俽俾俿"
    \o "傀傁傂傃傄傅傆傇傈傉傊傋傌傍傎傏傐傑傒傓傔傕傖傗傘備傚傛傜傝傞傟傠傡傢傣傤傥傦傧储傩傪傫催傭傮傯傰傱傲傳傴債傶傷傸傹傺傻傼傽傾傿僀僁僂僃僄僅僆僇僈僉僊僋僌働僎像僐僑僒僓僔僕僖僗僘僙僚僛僜僝僞僟僠僡僢僣僤僥僦僧僨僩僪僫僬僭僮僯僰僱僲僳僴僵僶僷僸價僺僻僼僽僾僿"
    \o "冀冁冂冃冄内円冇冈冉冊冋册再冎冏冐冑冒冓冔冕冖冗冘写冚军农冝冞冟冠冡冢冣冤冥冦冧冨冩冪冫冬冭冮冯冰冱冲决冴况冶冷冸冹冺冻冼冽冾冿净凁凂凃凄凅准凇凈凉凊凋凌凍凎减凐凑凒凓凔凕凖凗凘凙凚凛凜凝凞凟几凡凢凣凤凥処凧凨凩凪凫凬凭凮凯凰凱凲凳凴凵凶凷凸凹出击凼函凾凿"
    \o "劀劁劂劃劄劅劆劇劈劉劊劋劌劍劎劏劐劑劒劓劔劕劖劗劘劙劚力劜劝办功加务劢劣劤劥劦劧动助努劫劬劭劮劯劰励劲劳労劵劶劷劸効劺劻劼劽劾势勀勁勂勃勄勅勆勇勈勉勊勋勌勍勎勏勐勑勒勓勔動勖勗勘務勚勛勜勝勞募勠勡勢勣勤勥勦勧勨勩勪勫勬勭勮勯勰勱勲勳勴勵勶勷勸勹勺勻勼勽勾勿"
    \o "厀厁厂厃厄厅历厇厈厉厊压厌厍厎厏厐厑厒厓厔厕厖厗厘厙厚厛厜厝厞原厠厡厢厣厤厥厦厧厨厩厪厫厬厭厮厯厰厱厲厳厴厵厶厷厸厹厺去厼厽厾县叀叁参參叄叅叆叇又叉及友双反収叏叐发叒叓叔叕取受变叙叚叛叜叝叞叟叠叡叢口古句另叧叨叩只叫召叭叮可台叱史右叴叵叶号司叹叺叻叼叽叾叿"
    \o "咀咁咂咃咄咅咆咇咈咉咊咋和咍咎咏咐咑咒咓咔咕咖咗咘咙咚咛咜咝咞咟咠咡咢咣咤咥咦咧咨咩咪咫咬咭咮咯咰咱咲咳咴咵咶咷咸咹咺咻咼咽咾咿哀品哂哃哄哅哆哇哈哉哊哋哌响哎哏哐哑哒哓哔哕哖哗哘哙哚哛哜哝哞哟哠員哢哣哤哥哦哧哨哩哪哫哬哭哮哯哰哱哲哳哴哵哶哷哸哹哺哻哼哽哾哿"
    \o "喀喁喂喃善喅喆喇喈喉喊喋喌喍喎喏喐喑喒喓喔喕喖喗喘喙喚喛喜喝喞喟喠喡喢喣喤喥喦喧喨喩喪喫喬喭單喯喰喱喲喳喴喵営喷喸喹喺喻喼喽喾喿嗀嗁嗂嗃嗄嗅嗆嗇嗈嗉嗊嗋嗌嗍嗎嗏嗐嗑嗒嗓嗔嗕嗖嗗嗘嗙嗚嗛嗜嗝嗞嗟嗠嗡嗢嗣嗤嗥嗦嗧嗨嗩嗪嗫嗬嗭嗮嗯嗰嗱嗲嗳嗴嗵嗶嗷嗸嗹嗺嗻嗼嗽嗾嗿"
    \o "嚀嚁嚂嚃嚄嚅嚆嚇嚈嚉嚊嚋嚌嚍嚎嚏嚐嚑嚒嚓嚔嚕嚖嚗嚘嚙嚚嚛嚜嚝嚞嚟嚠嚡嚢嚣嚤嚥嚦嚧嚨嚩嚪嚫嚬嚭嚮嚯嚰嚱嚲嚳嚴嚵嚶嚷嚸嚹嚺嚻嚼嚽嚾嚿囀囁囂囃囄囅囆囇囈囉囊囋囌囍囎囏囐囑囒囓囔囕囖囗囘囙囚四囜囝回囟因囡团団囤囥囦囧囨囩囪囫囬园囮囯困囱囲図围囵囶囷囸囹固囻囼国图囿"
    \o "垀垁垂垃垄垅垆垇垈垉垊型垌垍垎垏垐垑垒垓垔垕垖垗垘垙垚垛垜垝垞垟垠垡垢垣垤垥垦垧垨垩垪垫垬垭垮垯垰垱垲垳垴垵垶垷垸垹垺垻垼垽垾垿埀埁埂埃埄埅埆埇埈埉埊埋埌埍城埏埐埑埒埓埔埕埖埗埘埙埚埛埜埝埞域埠埡埢埣埤埥埦埧埨埩埪埫埬埭埮埯埰埱埲埳埴埵埶執埸培基埻埼埽埾埿"
    \o "墀墁墂境墄墅墆墇墈墉墊墋墌墍墎墏墐墑墒墓墔墕墖増墘墙墚墛墜墝增墟墠墡墢墣墤墥墦墧墨墩墪墫墬墭墮墯墰墱墲墳墴墵墶墷墸墹墺墻墼墽墾墿壀壁壂壃壄壅壆壇壈壉壊壋壌壍壎壏壐壑壒壓壔壕壖壗壘壙壚壛壜壝壞壟壠壡壢壣壤壥壦壧壨壩壪士壬壭壮壯声壱売壳壴壵壶壷壸壹壺壻壼壽壾壿"
    \o "妀妁如妃妄妅妆妇妈妉妊妋妌妍妎妏妐妑妒妓妔妕妖妗妘妙妚妛妜妝妞妟妠妡妢妣妤妥妦妧妨妩妪妫妬妭妮妯妰妱妲妳妴妵妶妷妸妹妺妻妼妽妾妿姀姁姂姃姄姅姆姇姈姉姊始姌姍姎姏姐姑姒姓委姕姖姗姘姙姚姛姜姝姞姟姠姡姢姣姤姥姦姧姨姩姪姫姬姭姮姯姰姱姲姳姴姵姶姷姸姹姺姻姼姽姾姿"
    \o "媀媁媂媃媄媅媆媇媈媉媊媋媌媍媎媏媐媑媒媓媔媕媖媗媘媙媚媛媜媝媞媟媠媡媢媣媤媥媦媧媨媩媪媫媬媭媮媯媰媱媲媳媴媵媶媷媸媹媺媻媼媽媾媿嫀嫁嫂嫃嫄嫅嫆嫇嫈嫉嫊嫋嫌嫍嫎嫏嫐嫑嫒嫓嫔嫕嫖嫗嫘嫙嫚嫛嫜嫝嫞嫟嫠嫡嫢嫣嫤嫥嫦嫧嫨嫩嫪嫫嫬嫭嫮嫯嫰嫱嫲嫳嫴嫵嫶嫷嫸嫹嫺嫻嫼嫽嫾嫿"
    \o "宀宁宂它宄宅宆宇守安宊宋完宍宎宏宐宑宒宓宔宕宖宗官宙定宛宜宝实実宠审客宣室宥宦宧宨宩宪宫宬宭宮宯宰宱宲害宴宵家宷宸容宺宻宼宽宾宿寀寁寂寃寄寅密寇寈寉寊寋富寍寎寏寐寑寒寓寔寕寖寗寘寙寚寛寜寝寞察寠寡寢寣寤寥實寧寨審寪寫寬寭寮寯寰寱寲寳寴寵寶寷寸对寺寻导寽対寿"
    \o "岀岁岂岃岄岅岆岇岈岉岊岋岌岍岎岏岐岑岒岓岔岕岖岗岘岙岚岛岜岝岞岟岠岡岢岣岤岥岦岧岨岩岪岫岬岭岮岯岰岱岲岳岴岵岶岷岸岹岺岻岼岽岾岿峀峁峂峃峄峅峆峇峈峉峊峋峌峍峎峏峐峑峒峓峔峕峖峗峘峙峚峛峜峝峞峟峠峡峢峣峤峥峦峧峨峩峪峫峬峭峮峯峰峱峲峳峴峵島峷峸峹峺峻峼峽峾峿"
    \o "嶀嶁嶂嶃嶄嶅嶆嶇嶈嶉嶊嶋嶌嶍嶎嶏嶐嶑嶒嶓嶔嶕嶖嶗嶘嶙嶚嶛嶜嶝嶞嶟嶠嶡嶢嶣嶤嶥嶦嶧嶨嶩嶪嶫嶬嶭嶮嶯嶰嶱嶲嶳嶴嶵嶶嶷嶸嶹嶺嶻嶼嶽嶾嶿巀巁巂巃巄巅巆巇巈巉巊巋巌巍巎巏巐巑巒巓巔巕巖巗巘巙巚巛巜川州巟巠巡巢巣巤工左巧巨巩巪巫巬巭差巯巰己已巳巴巵巶巷巸巹巺巻巼巽巾巿"
    \o "庀庁庂広庄庅庆庇庈庉床庋庌庍庎序庐庑庒库应底庖店庘庙庚庛府庝庞废庠庡庢庣庤庥度座庨庩庪庫庬庭庮庯庰庱庲庳庴庵庶康庸庹庺庻庼庽庾庿廀廁廂廃廄廅廆廇廈廉廊廋廌廍廎廏廐廑廒廓廔廕廖廗廘廙廚廛廜廝廞廟廠廡廢廣廤廥廦廧廨廩廪廫廬廭廮廯廰廱廲廳廴廵延廷廸廹建廻廼廽廾廿"
    \o "往征徂徃径待徆徇很徉徊律後徍徎徏徐徑徒従徔徕徖得徘徙徚徛徜徝從徟徠御徢徣徤徥徦徧徨復循徫徬徭微徯徰徱徲徳徴徵徶德徸徹徺徻徼徽徾徿忀忁忂心忄必忆忇忈忉忊忋忌忍忎忏忐忑忒忓忔忕忖志忘忙忚忛応忝忞忟忠忡忢忣忤忥忦忧忨忩忪快忬忭忮忯忰忱忲忳忴念忶忷忸忹忺忻忼忽忾忿"
    \o "悀悁悂悃悄悅悆悇悈悉悊悋悌悍悎悏悐悑悒悓悔悕悖悗悘悙悚悛悜悝悞悟悠悡悢患悤悥悦悧您悩悪悫悬悭悮悯悰悱悲悳悴悵悶悷悸悹悺悻悼悽悾悿惀惁惂惃惄情惆惇惈惉惊惋惌惍惎惏惐惑惒惓惔惕惖惗惘惙惚惛惜惝惞惟惠惡惢惣惤惥惦惧惨惩惪惫惬惭惮惯惰惱惲想惴惵惶惷惸惹惺惻惼惽惾惿"
    \o "憀憁憂憃憄憅憆憇憈憉憊憋憌憍憎憏憐憑憒憓憔憕憖憗憘憙憚憛憜憝憞憟憠憡憢憣憤憥憦憧憨憩憪憫憬憭憮憯憰憱憲憳憴憵憶憷憸憹憺憻憼憽憾憿懀懁懂懃懄懅懆懇懈應懊懋懌懍懎懏懐懑懒懓懔懕懖懗懘懙懚懛懜懝懞懟懠懡懢懣懤懥懦懧懨懩懪懫懬懭懮懯懰懱懲懳懴懵懶懷懸懹懺懻懼懽懾懿"
    \o "技抁抂抃抄抅抆抇抈抉把抋抌抍抎抏抐抑抒抓抔投抖抗折抙抚抛抜抝択抟抠抡抢抣护报抦抧抨抩抪披抬抭抮抯抰抱抲抳抴抵抶抷抸抹抺抻押抽抾抿拀拁拂拃拄担拆拇拈拉拊拋拌拍拎拏拐拑拒拓拔拕拖拗拘拙拚招拜拝拞拟拠拡拢拣拤拥拦拧拨择拪拫括拭拮拯拰拱拲拳拴拵拶拷拸拹拺拻拼拽拾拿"
    \o "掀掁掂掃掄掅掆掇授掉掊掋掌掍掎掏掐掑排掓掔掕掖掗掘掙掚掛掜掝掞掟掠採探掣掤接掦控推掩措掫掬掭掮掯掰掱掲掳掴掵掶掷掸掹掺掻掼掽掾掿揀揁揂揃揄揅揆揇揈揉揊揋揌揍揎描提揑插揓揔揕揖揗揘揙揚換揜揝揞揟揠握揢揣揤揥揦揧揨揩揪揫揬揭揮揯揰揱揲揳援揵揶揷揸揹揺揻揼揽揾揿"
    \o "撀撁撂撃撄撅撆撇撈撉撊撋撌撍撎撏撐撑撒撓撔撕撖撗撘撙撚撛撜撝撞撟撠撡撢撣撤撥撦撧撨撩撪撫撬播撮撯撰撱撲撳撴撵撶撷撸撹撺撻撼撽撾撿擀擁擂擃擄擅擆擇擈擉擊擋擌操擎擏擐擑擒擓擔擕擖擗擘擙據擛擜擝擞擟擠擡擢擣擤擥擦擧擨擩擪擫擬擭擮擯擰擱擲擳擴擵擶擷擸擹擺擻擼擽擾擿"
    \o "斀斁斂斃斄斅斆文斈斉斊斋斌斍斎斏斐斑斒斓斔斕斖斗斘料斚斛斜斝斞斟斠斡斢斣斤斥斦斧斨斩斪斫斬断斮斯新斱斲斳斴斵斶斷斸方斺斻於施斾斿旀旁旂旃旄旅旆旇旈旉旊旋旌旍旎族旐旑旒旓旔旕旖旗旘旙旚旛旜旝旞旟无旡既旣旤日旦旧旨早旪旫旬旭旮旯旰旱旲旳旴旵时旷旸旹旺旻旼旽旾旿"
    \o "暀暁暂暃暄暅暆暇暈暉暊暋暌暍暎暏暐暑暒暓暔暕暖暗暘暙暚暛暜暝暞暟暠暡暢暣暤暥暦暧暨暩暪暫暬暭暮暯暰暱暲暳暴暵暶暷暸暹暺暻暼暽暾暿曀曁曂曃曄曅曆曇曈曉曊曋曌曍曎曏曐曑曒曓曔曕曖曗曘曙曚曛曜曝曞曟曠曡曢曣曤曥曦曧曨曩曪曫曬曭曮曯曰曱曲曳更曵曶曷書曹曺曻曼曽曾替"
    \o "枀极枂枃构枅枆枇枈枉枊枋枌枍枎枏析枑枒枓枔枕枖林枘枙枚枛果枝枞枟枠枡枢枣枤枥枦枧枨枩枪枫枬枭枮枯枰枱枲枳枴枵架枷枸枹枺枻枼枽枾枿柀柁柂柃柄柅柆柇柈柉柊柋柌柍柎柏某柑柒染柔柕柖柗柘柙柚柛柜柝柞柟柠柡柢柣柤查柦柧柨柩柪柫柬柭柮柯柰柱柲柳柴柵柶柷柸柹柺査柼柽柾柿"
    \o "梀梁梂梃梄梅梆梇梈梉梊梋梌梍梎梏梐梑梒梓梔梕梖梗梘梙梚梛梜條梞梟梠梡梢梣梤梥梦梧梨梩梪梫梬梭梮梯械梱梲梳梴梵梶梷梸梹梺梻梼梽梾梿检棁棂棃棄棅棆棇棈棉棊棋棌棍棎棏棐棑棒棓棔棕棖棗棘棙棚棛棜棝棞棟棠棡棢棣棤棥棦棧棨棩棪棫棬棭森棯棰棱棲棳棴棵棶棷棸棹棺棻棼棽棾棿"
    \o "榀榁概榃榄榅榆榇榈榉榊榋榌榍榎榏榐榑榒榓榔榕榖榗榘榙榚榛榜榝榞榟榠榡榢榣榤榥榦榧榨榩榪榫榬榭榮榯榰榱榲榳榴榵榶榷榸榹榺榻榼榽榾榿槀槁槂槃槄槅槆槇槈槉槊構槌槍槎槏槐槑槒槓槔槕槖槗様槙槚槛槜槝槞槟槠槡槢槣槤槥槦槧槨槩槪槫槬槭槮槯槰槱槲槳槴槵槶槷槸槹槺槻槼槽槾槿"
    \o "檀檁檂檃檄檅檆檇檈檉檊檋檌檍檎檏檐檑檒檓檔檕檖檗檘檙檚檛檜檝檞檟檠檡檢檣檤檥檦檧檨檩檪檫檬檭檮檯檰檱檲檳檴檵檶檷檸檹檺檻檼檽檾檿櫀櫁櫂櫃櫄櫅櫆櫇櫈櫉櫊櫋櫌櫍櫎櫏櫐櫑櫒櫓櫔櫕櫖櫗櫘櫙櫚櫛櫜櫝櫞櫟櫠櫡櫢櫣櫤櫥櫦櫧櫨櫩櫪櫫櫬櫭櫮櫯櫰櫱櫲櫳櫴櫵櫶櫷櫸櫹櫺櫻櫼櫽櫾櫿"
    \o "殀殁殂殃殄殅殆殇殈殉殊残殌殍殎殏殐殑殒殓殔殕殖殗殘殙殚殛殜殝殞殟殠殡殢殣殤殥殦殧殨殩殪殫殬殭殮殯殰殱殲殳殴段殶殷殸殹殺殻殼殽殾殿毀毁毂毃毄毅毆毇毈毉毊毋毌母毎每毐毑毒毓比毕毖毗毘毙毚毛毜毝毞毟毠毡毢毣毤毥毦毧毨毩毪毫毬毭毮毯毰毱毲毳毴毵毶毷毸毹毺毻毼毽毾毿"
    \o "沀沁沂沃沄沅沆沇沈沉沊沋沌沍沎沏沐沑沒沓沔沕沖沗沘沙沚沛沜沝沞沟沠没沢沣沤沥沦沧沨沩沪沫沬沭沮沯沰沱沲河沴沵沶沷沸油沺治沼沽沾沿泀況泂泃泄泅泆泇泈泉泊泋泌泍泎泏泐泑泒泓泔法泖泗泘泙泚泛泜泝泞泟泠泡波泣泤泥泦泧注泩泪泫泬泭泮泯泰泱泲泳泴泵泶泷泸泹泺泻泼泽泾泿"
    \o "涀涁涂涃涄涅涆涇消涉涊涋涌涍涎涏涐涑涒涓涔涕涖涗涘涙涚涛涜涝涞涟涠涡涢涣涤涥润涧涨涩涪涫涬涭涮涯涰涱液涳涴涵涶涷涸涹涺涻涼涽涾涿淀淁淂淃淄淅淆淇淈淉淊淋淌淍淎淏淐淑淒淓淔淕淖淗淘淙淚淛淜淝淞淟淠淡淢淣淤淥淦淧淨淩淪淫淬淭淮淯淰深淲淳淴淵淶混淸淹淺添淼淽淾淿"
    \o "満溁溂溃溄溅溆溇溈溉溊溋溌溍溎溏源溑溒溓溔溕準溗溘溙溚溛溜溝溞溟溠溡溢溣溤溥溦溧溨溩溪溫溬溭溮溯溰溱溲溳溴溵溶溷溸溹溺溻溼溽溾溿滀滁滂滃滄滅滆滇滈滉滊滋滌滍滎滏滐滑滒滓滔滕滖滗滘滙滚滛滜滝滞滟滠满滢滣滤滥滦滧滨滩滪滫滬滭滮滯滰滱滲滳滴滵滶滷滸滹滺滻滼滽滾滿"
    \o "澀澁澂澃澄澅澆澇澈澉澊澋澌澍澎澏澐澑澒澓澔澕澖澗澘澙澚澛澜澝澞澟澠澡澢澣澤澥澦澧澨澩澪澫澬澭澮澯澰澱澲澳澴澵澶澷澸澹澺澻澼澽澾澿激濁濂濃濄濅濆濇濈濉濊濋濌濍濎濏濐濑濒濓濔濕濖濗濘濙濚濛濜濝濞濟濠濡濢濣濤濥濦濧濨濩濪濫濬濭濮濯濰濱濲濳濴濵濶濷濸濹濺濻濼濽濾濿"
    \o "炀炁炂炃炄炅炆炇炈炉炊炋炌炍炎炏炐炑炒炓炔炕炖炗炘炙炚炛炜炝炞炟炠炡炢炣炤炥炦炧炨炩炪炫炬炭炮炯炰炱炲炳炴炵炶炷炸点為炻炼炽炾炿烀烁烂烃烄烅烆烇烈烉烊烋烌烍烎烏烐烑烒烓烔烕烖烗烘烙烚烛烜烝烞烟烠烡烢烣烤烥烦烧烨烩烪烫烬热烮烯烰烱烲烳烴烵烶烷烸烹烺烻烼烽烾烿"
    \o "熀熁熂熃熄熅熆熇熈熉熊熋熌熍熎熏熐熑熒熓熔熕熖熗熘熙熚熛熜熝熞熟熠熡熢熣熤熥熦熧熨熩熪熫熬熭熮熯熰熱熲熳熴熵熶熷熸熹熺熻熼熽熾熿燀燁燂燃燄燅燆燇燈燉燊燋燌燍燎燏燐燑燒燓燔燕燖燗燘燙燚燛燜燝燞營燠燡燢燣燤燥燦燧燨燩燪燫燬燭燮燯燰燱燲燳燴燵燶燷燸燹燺燻燼燽燾燿"
    \o "犀犁犂犃犄犅犆犇犈犉犊犋犌犍犎犏犐犑犒犓犔犕犖犗犘犙犚犛犜犝犞犟犠犡犢犣犤犥犦犧犨犩犪犫犬犭犮犯犰犱犲犳犴犵状犷犸犹犺犻犼犽犾犿狀狁狂狃狄狅狆狇狈狉狊狋狌狍狎狏狐狑狒狓狔狕狖狗狘狙狚狛狜狝狞狟狠狡狢狣狤狥狦狧狨狩狪狫独狭狮狯狰狱狲狳狴狵狶狷狸狹狺狻狼狽狾狿"
    \o "玀玁玂玃玄玅玆率玈玉玊王玌玍玎玏玐玑玒玓玔玕玖玗玘玙玚玛玜玝玞玟玠玡玢玣玤玥玦玧玨玩玪玫玬玭玮环现玱玲玳玴玵玶玷玸玹玺玻玼玽玾玿珀珁珂珃珄珅珆珇珈珉珊珋珌珍珎珏珐珑珒珓珔珕珖珗珘珙珚珛珜珝珞珟珠珡珢珣珤珥珦珧珨珩珪珫珬班珮珯珰珱珲珳珴珵珶珷珸珹珺珻珼珽現珿"
    \o "璀璁璂璃璄璅璆璇璈璉璊璋璌璍璎璏璐璑璒璓璔璕璖璗璘璙璚璛璜璝璞璟璠璡璢璣璤璥璦璧璨璩璪璫璬璭璮璯環璱璲璳璴璵璶璷璸璹璺璻璼璽璾璿瓀瓁瓂瓃瓄瓅瓆瓇瓈瓉瓊瓋瓌瓍瓎瓏瓐瓑瓒瓓瓔瓕瓖瓗瓘瓙瓚瓛瓜瓝瓞瓟瓠瓡瓢瓣瓤瓥瓦瓧瓨瓩瓪瓫瓬瓭瓮瓯瓰瓱瓲瓳瓴瓵瓶瓷瓸瓹瓺瓻瓼瓽瓾瓿"
    \o "疀疁疂疃疄疅疆疇疈疉疊疋疌疍疎疏疐疑疒疓疔疕疖疗疘疙疚疛疜疝疞疟疠疡疢疣疤疥疦疧疨疩疪疫疬疭疮疯疰疱疲疳疴疵疶疷疸疹疺疻疼疽疾疿痀痁痂痃痄病痆症痈痉痊痋痌痍痎痏痐痑痒痓痔痕痖痗痘痙痚痛痜痝痞痟痠痡痢痣痤痥痦痧痨痩痪痫痬痭痮痯痰痱痲痳痴痵痶痷痸痹痺痻痼痽痾痿"
    \o "皀皁皂皃的皅皆皇皈皉皊皋皌皍皎皏皐皑皒皓皔皕皖皗皘皙皚皛皜皝皞皟皠皡皢皣皤皥皦皧皨皩皪皫皬皭皮皯皰皱皲皳皴皵皶皷皸皹皺皻皼皽皾皿盀盁盂盃盄盅盆盇盈盉益盋盌盍盎盏盐监盒盓盔盕盖盗盘盙盚盛盜盝盞盟盠盡盢監盤盥盦盧盨盩盪盫盬盭目盯盰盱盲盳直盵盶盷相盹盺盻盼盽盾盿"
    \o "瞀瞁瞂瞃瞄瞅瞆瞇瞈瞉瞊瞋瞌瞍瞎瞏瞐瞑瞒瞓瞔瞕瞖瞗瞘瞙瞚瞛瞜瞝瞞瞟瞠瞡瞢瞣瞤瞥瞦瞧瞨瞩瞪瞫瞬瞭瞮瞯瞰瞱瞲瞳瞴瞵瞶瞷瞸瞹瞺瞻瞼瞽瞾瞿矀矁矂矃矄矅矆矇矈矉矊矋矌矍矎矏矐矑矒矓矔矕矖矗矘矙矚矛矜矝矞矟矠矡矢矣矤知矦矧矨矩矪矫矬短矮矯矰矱矲石矴矵矶矷矸矹矺矻矼矽矾矿"
    \o "碀碁碂碃碄碅碆碇碈碉碊碋碌碍碎碏碐碑碒碓碔碕碖碗碘碙碚碛碜碝碞碟碠碡碢碣碤碥碦碧碨碩碪碫碬碭碮碯碰碱碲碳碴碵碶碷碸碹確碻碼碽碾碿磀磁磂磃磄磅磆磇磈磉磊磋磌磍磎磏磐磑磒磓磔磕磖磗磘磙磚磛磜磝磞磟磠磡磢磣磤磥磦磧磨磩磪磫磬磭磮磯磰磱磲磳磴磵磶磷磸磹磺磻磼磽磾磿"
    \o "禀禁禂禃禄禅禆禇禈禉禊禋禌禍禎福禐禑禒禓禔禕禖禗禘禙禚禛禜禝禞禟禠禡禢禣禤禥禦禧禨禩禪禫禬禭禮禯禰禱禲禳禴禵禶禷禸禹禺离禼禽禾禿秀私秂秃秄秅秆秇秈秉秊秋秌种秎秏秐科秒秓秔秕秖秗秘秙秚秛秜秝秞租秠秡秢秣秤秥秦秧秨秩秪秫秬秭秮积称秱秲秳秴秵秶秷秸秹秺移秼秽秾秿"
    \o "窀突窂窃窄窅窆窇窈窉窊窋窌窍窎窏窐窑窒窓窔窕窖窗窘窙窚窛窜窝窞窟窠窡窢窣窤窥窦窧窨窩窪窫窬窭窮窯窰窱窲窳窴窵窶窷窸窹窺窻窼窽窾窿竀竁竂竃竄竅竆竇竈竉竊立竌竍竎竏竐竑竒竓竔竕竖竗竘站竚竛竜竝竞竟章竡竢竣竤童竦竧竨竩竪竫竬竭竮端竰竱竲竳竴竵競竷竸竹竺竻竼竽竾竿"
    \o "简箁箂箃箄箅箆箇箈箉箊箋箌箍箎箏箐箑箒箓箔箕箖算箘箙箚箛箜箝箞箟箠管箢箣箤箥箦箧箨箩箪箫箬箭箮箯箰箱箲箳箴箵箶箷箸箹箺箻箼箽箾箿節篁篂篃範篅篆篇篈築篊篋篌篍篎篏篐篑篒篓篔篕篖篗篘篙篚篛篜篝篞篟篠篡篢篣篤篥篦篧篨篩篪篫篬篭篮篯篰篱篲篳篴篵篶篷篸篹篺篻篼篽篾篿"
    \o "粀粁粂粃粄粅粆粇粈粉粊粋粌粍粎粏粐粑粒粓粔粕粖粗粘粙粚粛粜粝粞粟粠粡粢粣粤粥粦粧粨粩粪粫粬粭粮粯粰粱粲粳粴粵粶粷粸粹粺粻粼粽精粿糀糁糂糃糄糅糆糇糈糉糊糋糌糍糎糏糐糑糒糓糔糕糖糗糘糙糚糛糜糝糞糟糠糡糢糣糤糥糦糧糨糩糪糫糬糭糮糯糰糱糲糳糴糵糶糷糸糹糺系糼糽糾糿"
    \o "綀綁綂綃綄綅綆綇綈綉綊綋綌綍綎綏綐綑綒經綔綕綖綗綘継続綛綜綝綞綟綠綡綢綣綤綥綦綧綨綩綪綫綬維綮綯綰綱網綳綴綵綶綷綸綹綺綻綼綽綾綿緀緁緂緃緄緅緆緇緈緉緊緋緌緍緎総緐緑緒緓緔緕緖緗緘緙線緛緜緝緞緟締緡緢緣緤緥緦緧編緩緪緫緬緭緮緯緰緱緲緳練緵緶緷緸緹緺緻緼緽緾緿"
    \o "纀纁纂纃纄纅纆纇纈纉纊纋續纍纎纏纐纑纒纓纔纕纖纗纘纙纚纛纜纝纞纟纠纡红纣纤纥约级纨纩纪纫纬纭纮纯纰纱纲纳纴纵纶纷纸纹纺纻纼纽纾线绀绁绂练组绅细织终绉绊绋绌绍绎经绐绑绒结绔绕绖绗绘给绚绛络绝绞统绠绡绢绣绤绥绦继绨绩绪绫绬续绮绯绰绱绲绳维绵绶绷绸绹绺绻综绽绾绿"
    \o "羀羁羂羃羄羅羆羇羈羉羊羋羌羍美羏羐羑羒羓羔羕羖羗羘羙羚羛羜羝羞羟羠羡羢羣群羥羦羧羨義羪羫羬羭羮羯羰羱羲羳羴羵羶羷羸羹羺羻羼羽羾羿翀翁翂翃翄翅翆翇翈翉翊翋翌翍翎翏翐翑習翓翔翕翖翗翘翙翚翛翜翝翞翟翠翡翢翣翤翥翦翧翨翩翪翫翬翭翮翯翰翱翲翳翴翵翶翷翸翹翺翻翼翽翾翿"
    \o "肀肁肂肃肄肅肆肇肈肉肊肋肌肍肎肏肐肑肒肓肔肕肖肗肘肙肚肛肜肝肞肟肠股肢肣肤肥肦肧肨肩肪肫肬肭肮肯肰肱育肳肴肵肶肷肸肹肺肻肼肽肾肿胀胁胂胃胄胅胆胇胈胉胊胋背胍胎胏胐胑胒胓胔胕胖胗胘胙胚胛胜胝胞胟胠胡胢胣胤胥胦胧胨胩胪胫胬胭胮胯胰胱胲胳胴胵胶胷胸胹胺胻胼能胾胿"
    \o "膀膁膂膃膄膅膆膇膈膉膊膋膌膍膎膏膐膑膒膓膔膕膖膗膘膙膚膛膜膝膞膟膠膡膢膣膤膥膦膧膨膩膪膫膬膭膮膯膰膱膲膳膴膵膶膷膸膹膺膻膼膽膾膿臀臁臂臃臄臅臆臇臈臉臊臋臌臍臎臏臐臑臒臓臔臕臖臗臘臙臚臛臜臝臞臟臠臡臢臣臤臥臦臧臨臩自臫臬臭臮臯臰臱臲至致臵臶臷臸臹臺臻臼臽臾臿"
    \o "芀芁节芃芄芅芆芇芈芉芊芋芌芍芎芏芐芑芒芓芔芕芖芗芘芙芚芛芜芝芞芟芠芡芢芣芤芥芦芧芨芩芪芫芬芭芮芯芰花芲芳芴芵芶芷芸芹芺芻芼芽芾芿苀苁苂苃苄苅苆苇苈苉苊苋苌苍苎苏苐苑苒苓苔苕苖苗苘苙苚苛苜苝苞苟苠苡苢苣苤若苦苧苨苩苪苫苬苭苮苯苰英苲苳苴苵苶苷苸苹苺苻苼苽苾苿"
    \o "莀莁莂莃莄莅莆莇莈莉莊莋莌莍莎莏莐莑莒莓莔莕莖莗莘莙莚莛莜莝莞莟莠莡莢莣莤莥莦莧莨莩莪莫莬莭莮莯莰莱莲莳莴莵莶获莸莹莺莻莼莽莾莿菀菁菂菃菄菅菆菇菈菉菊菋菌菍菎菏菐菑菒菓菔菕菖菗菘菙菚菛菜菝菞菟菠菡菢菣菤菥菦菧菨菩菪菫菬菭菮華菰菱菲菳菴菵菶菷菸菹菺菻菼菽菾菿"
    \o "蒀蒁蒂蒃蒄蒅蒆蒇蒈蒉蒊蒋蒌蒍蒎蒏蒐蒑蒒蒓蒔蒕蒖蒗蒘蒙蒚蒛蒜蒝蒞蒟蒠蒡蒢蒣蒤蒥蒦蒧蒨蒩蒪蒫蒬蒭蒮蒯蒰蒱蒲蒳蒴蒵蒶蒷蒸蒹蒺蒻蒼蒽蒾蒿蓀蓁蓂蓃蓄蓅蓆蓇蓈蓉蓊蓋蓌蓍蓎蓏蓐蓑蓒蓓蓔蓕蓖蓗蓘蓙蓚蓛蓜蓝蓞蓟蓠蓡蓢蓣蓤蓥蓦蓧蓨蓩蓪蓫蓬蓭蓮蓯蓰蓱蓲蓳蓴蓵蓶蓷蓸蓹蓺蓻蓼蓽蓾蓿"
    \o "薀薁薂薃薄薅薆薇薈薉薊薋薌薍薎薏薐薑薒薓薔薕薖薗薘薙薚薛薜薝薞薟薠薡薢薣薤薥薦薧薨薩薪薫薬薭薮薯薰薱薲薳薴薵薶薷薸薹薺薻薼薽薾薿藀藁藂藃藄藅藆藇藈藉藊藋藌藍藎藏藐藑藒藓藔藕藖藗藘藙藚藛藜藝藞藟藠藡藢藣藤藥藦藧藨藩藪藫藬藭藮藯藰藱藲藳藴藵藶藷藸藹藺藻藼藽藾藿"
    \o "蚀蚁蚂蚃蚄蚅蚆蚇蚈蚉蚊蚋蚌蚍蚎蚏蚐蚑蚒蚓蚔蚕蚖蚗蚘蚙蚚蚛蚜蚝蚞蚟蚠蚡蚢蚣蚤蚥蚦蚧蚨蚩蚪蚫蚬蚭蚮蚯蚰蚱蚲蚳蚴蚵蚶蚷蚸蚹蚺蚻蚼蚽蚾蚿蛀蛁蛂蛃蛄蛅蛆蛇蛈蛉蛊蛋蛌蛍蛎蛏蛐蛑蛒蛓蛔蛕蛖蛗蛘蛙蛚蛛蛜蛝蛞蛟蛠蛡蛢蛣蛤蛥蛦蛧蛨蛩蛪蛫蛬蛭蛮蛯蛰蛱蛲蛳蛴蛵蛶蛷蛸蛹蛺蛻蛼蛽蛾蛿"
    \o "螀螁螂螃螄螅螆螇螈螉螊螋螌融螎螏螐螑螒螓螔螕螖螗螘螙螚螛螜螝螞螟螠螡螢螣螤螥螦螧螨螩螪螫螬螭螮螯螰螱螲螳螴螵螶螷螸螹螺螻螼螽螾螿蟀蟁蟂蟃蟄蟅蟆蟇蟈蟉蟊蟋蟌蟍蟎蟏蟐蟑蟒蟓蟔蟕蟖蟗蟘蟙蟚蟛蟜蟝蟞蟟蟠蟡蟢蟣蟤蟥蟦蟧蟨蟩蟪蟫蟬蟭蟮蟯蟰蟱蟲蟳蟴蟵蟶蟷蟸蟹蟺蟻蟼蟽蟾蟿"
    \o "袀袁袂袃袄袅袆袇袈袉袊袋袌袍袎袏袐袑袒袓袔袕袖袗袘袙袚袛袜袝袞袟袠袡袢袣袤袥袦袧袨袩袪被袬袭袮袯袰袱袲袳袴袵袶袷袸袹袺袻袼袽袾袿裀裁裂裃裄装裆裇裈裉裊裋裌裍裎裏裐裑裒裓裔裕裖裗裘裙裚裛補裝裞裟裠裡裢裣裤裥裦裧裨裩裪裫裬裭裮裯裰裱裲裳裴裵裶裷裸裹裺裻裼製裾裿"
    \o "覀要覂覃覄覅覆覇覈覉覊見覌覍覎規覐覑覒覓覔覕視覗覘覙覚覛覜覝覞覟覠覡覢覣覤覥覦覧覨覩親覫覬覭覮覯覰覱覲観覴覵覶覷覸覹覺覻覼覽覾覿觀见观觃规觅视觇览觉觊觋觌觍觎觏觐觑角觓觔觕觖觗觘觙觚觛觜觝觞觟觠觡觢解觤觥触觧觨觩觪觫觬觭觮觯觰觱觲觳觴觵觶觷觸觹觺觻觼觽觾觿"
    \o "誀誁誂誃誄誅誆誇誈誉誊誋誌認誎誏誐誑誒誓誔誕誖誗誘誙誚誛誜誝語誟誠誡誢誣誤誥誦誧誨誩說誫説読誮誯誰誱課誳誴誵誶誷誸誹誺誻誼誽誾調諀諁諂諃諄諅諆談諈諉諊請諌諍諎諏諐諑諒諓諔諕論諗諘諙諚諛諜諝諞諟諠諡諢諣諤諥諦諧諨諩諪諫諬諭諮諯諰諱諲諳諴諵諶諷諸諹諺諻諼諽諾諿"
    \o "讀讁讂讃讄讅讆讇讈讉變讋讌讍讎讏讐讑讒讓讔讕讖讗讘讙讚讛讜讝讞讟讠计订讣认讥讦讧讨让讪讫讬训议讯记讱讲讳讴讵讶讷许讹论讻讼讽设访诀证诂诃评诅识诇诈诉诊诋诌词诎诏诐译诒诓诔试诖诗诘诙诚诛诜话诞诟诠诡询诣诤该详诧诨诩诪诫诬语诮误诰诱诲诳说诵诶请诸诹诺读诼诽课诿"
    \o "貀貁貂貃貄貅貆貇貈貉貊貋貌貍貎貏貐貑貒貓貔貕貖貗貘貙貚貛貜貝貞貟負財貢貣貤貥貦貧貨販貪貫責貭貮貯貰貱貲貳貴貵貶買貸貹貺費貼貽貾貿賀賁賂賃賄賅賆資賈賉賊賋賌賍賎賏賐賑賒賓賔賕賖賗賘賙賚賛賜賝賞賟賠賡賢賣賤賥賦賧賨賩質賫賬賭賮賯賰賱賲賳賴賵賶賷賸賹賺賻購賽賾賿"
    \o "趀趁趂趃趄超趆趇趈趉越趋趌趍趎趏趐趑趒趓趔趕趖趗趘趙趚趛趜趝趞趟趠趡趢趣趤趥趦趧趨趩趪趫趬趭趮趯趰趱趲足趴趵趶趷趸趹趺趻趼趽趾趿跀跁跂跃跄跅跆跇跈跉跊跋跌跍跎跏跐跑跒跓跔跕跖跗跘跙跚跛跜距跞跟跠跡跢跣跤跥跦跧跨跩跪跫跬跭跮路跰跱跲跳跴践跶跷跸跹跺跻跼跽跾跿"
    \o "躀躁躂躃躄躅躆躇躈躉躊躋躌躍躎躏躐躑躒躓躔躕躖躗躘躙躚躛躜躝躞躟躠躡躢躣躤躥躦躧躨躩躪身躬躭躮躯躰躱躲躳躴躵躶躷躸躹躺躻躼躽躾躿軀軁軂軃軄軅軆軇軈軉車軋軌軍軎軏軐軑軒軓軔軕軖軗軘軙軚軛軜軝軞軟軠軡転軣軤軥軦軧軨軩軪軫軬軭軮軯軰軱軲軳軴軵軶軷軸軹軺軻軼軽軾軿"
    \o "辀辁辂较辄辅辆辇辈辉辊辋辌辍辎辏辐辑辒输辔辕辖辗辘辙辚辛辜辝辞辟辠辡辢辣辤辥辦辧辨辩辪辫辬辭辮辯辰辱農辳辴辵辶辷辸边辺辻込辽达辿迀迁迂迃迄迅迆过迈迉迊迋迌迍迎迏运近迒迓返迕迖迗还这迚进远违连迟迠迡迢迣迤迥迦迧迨迩迪迫迬迭迮迯述迱迲迳迴迵迶迷迸迹迺迻迼追迾迿"
    \o "邀邁邂邃還邅邆邇邈邉邊邋邌邍邎邏邐邑邒邓邔邕邖邗邘邙邚邛邜邝邞邟邠邡邢那邤邥邦邧邨邩邪邫邬邭邮邯邰邱邲邳邴邵邶邷邸邹邺邻邼邽邾邿郀郁郂郃郄郅郆郇郈郉郊郋郌郍郎郏郐郑郒郓郔郕郖郗郘郙郚郛郜郝郞郟郠郡郢郣郤郥郦郧部郩郪郫郬郭郮郯郰郱郲郳郴郵郶郷郸郹郺郻郼都郾郿"
    \o "醀醁醂醃醄醅醆醇醈醉醊醋醌醍醎醏醐醑醒醓醔醕醖醗醘醙醚醛醜醝醞醟醠醡醢醣醤醥醦醧醨醩醪醫醬醭醮醯醰醱醲醳醴醵醶醷醸醹醺醻醼醽醾醿釀釁釂釃釄釅釆采釈釉释釋里重野量釐金釒釓釔釕釖釗釘釙釚釛釜針釞釟釠釡釢釣釤釥釦釧釨釩釪釫釬釭釮釯釰釱釲釳釴釵釶釷釸釹釺釻釼釽釾釿"
    \o "銀銁銂銃銄銅銆銇銈銉銊銋銌銍銎銏銐銑銒銓銔銕銖銗銘銙銚銛銜銝銞銟銠銡銢銣銤銥銦銧銨銩銪銫銬銭銮銯銰銱銲銳銴銵銶銷銸銹銺銻銼銽銾銿鋀鋁鋂鋃鋄鋅鋆鋇鋈鋉鋊鋋鋌鋍鋎鋏鋐鋑鋒鋓鋔鋕鋖鋗鋘鋙鋚鋛鋜鋝鋞鋟鋠鋡鋢鋣鋤鋥鋦鋧鋨鋩鋪鋫鋬鋭鋮鋯鋰鋱鋲鋳鋴鋵鋶鋷鋸鋹鋺鋻鋼鋽鋾鋿"
    \o "鎀鎁鎂鎃鎄鎅鎆鎇鎈鎉鎊鎋鎌鎍鎎鎏鎐鎑鎒鎓鎔鎕鎖鎗鎘鎙鎚鎛鎜鎝鎞鎟鎠鎡鎢鎣鎤鎥鎦鎧鎨鎩鎪鎫鎬鎭鎮鎯鎰鎱鎲鎳鎴鎵鎶鎷鎸鎹鎺鎻鎼鎽鎾鎿鏀鏁鏂鏃鏄鏅鏆鏇鏈鏉鏊鏋鏌鏍鏎鏏鏐鏑鏒鏓鏔鏕鏖鏗鏘鏙鏚鏛鏜鏝鏞鏟鏠鏡鏢鏣鏤鏥鏦鏧鏨鏩鏪鏫鏬鏭鏮鏯鏰鏱鏲鏳鏴鏵鏶鏷鏸鏹鏺鏻鏼鏽鏾鏿"
    \o "钀钁钂钃钄钅钆钇针钉钊钋钌钍钎钏钐钑钒钓钔钕钖钗钘钙钚钛钜钝钞钟钠钡钢钣钤钥钦钧钨钩钪钫钬钭钮钯钰钱钲钳钴钵钶钷钸钹钺钻钼钽钾钿铀铁铂铃铄铅铆铇铈铉铊铋铌铍铎铏铐铑铒铓铔铕铖铗铘铙铚铛铜铝铞铟铠铡铢铣铤铥铦铧铨铩铪铫铬铭铮铯铰铱铲铳铴铵银铷铸铹铺铻铼铽链铿"
    \o "門閁閂閃閄閅閆閇閈閉閊開閌閍閎閏閐閑閒間閔閕閖閗閘閙閚閛閜閝閞閟閠閡関閣閤閥閦閧閨閩閪閫閬閭閮閯閰閱閲閳閴閵閶閷閸閹閺閻閼閽閾閿闀闁闂闃闄闅闆闇闈闉闊闋闌闍闎闏闐闑闒闓闔闕闖闗闘闙闚闛關闝闞闟闠闡闢闣闤闥闦闧门闩闪闫闬闭问闯闰闱闲闳间闵闶闷闸闹闺闻闼闽闾闿"
    \o "隀隁隂隃隄隅隆隇隈隉隊隋隌隍階随隐隑隒隓隔隕隖隗隘隙隚際障隝隞隟隠隡隢隣隤隥隦隧隨隩險隫隬隭隮隯隰隱隲隳隴隵隶隷隸隹隺隻隼隽难隿雀雁雂雃雄雅集雇雈雉雊雋雌雍雎雏雐雑雒雓雔雕雖雗雘雙雚雛雜雝雞雟雠雡離難雤雥雦雧雨雩雪雫雬雭雮雯雰雱雲雳雴雵零雷雸雹雺電雼雽雾雿"
    \o "鞀鞁鞂鞃鞄鞅鞆鞇鞈鞉鞊鞋鞌鞍鞎鞏鞐鞑鞒鞓鞔鞕鞖鞗鞘鞙鞚鞛鞜鞝鞞鞟鞠鞡鞢鞣鞤鞥鞦鞧鞨鞩鞪鞫鞬鞭鞮鞯鞰鞱鞲鞳鞴鞵鞶鞷鞸鞹鞺鞻鞼鞽鞾鞿韀韁韂韃韄韅韆韇韈韉韊韋韌韍韎韏韐韑韒韓韔韕韖韗韘韙韚韛韜韝韞韟韠韡韢韣韤韥韦韧韨韩韪韫韬韭韮韯韰韱韲音韴韵韶韷韸韹韺韻韼韽韾響"
    \o "颀颁颂颃预颅领颇颈颉颊颋颌颍颎颏颐频颒颓颔颕颖颗题颙颚颛颜额颞颟颠颡颢颣颤颥颦颧風颩颪颫颬颭颮颯颰颱颲颳颴颵颶颷颸颹颺颻颼颽颾颿飀飁飂飃飄飅飆飇飈飉飊飋飌飍风飏飐飑飒飓飔飕飖飗飘飙飚飛飜飝飞食飠飡飢飣飤飥飦飧飨飩飪飫飬飭飮飯飰飱飲飳飴飵飶飷飸飹飺飻飼飽飾飿"
    \o "馀馁馂馃馄馅馆馇馈馉馊馋馌馍馎馏馐馑馒馓馔馕首馗馘香馚馛馜馝馞馟馠馡馢馣馤馥馦馧馨馩馪馫馬馭馮馯馰馱馲馳馴馵馶馷馸馹馺馻馼馽馾馿駀駁駂駃駄駅駆駇駈駉駊駋駌駍駎駏駐駑駒駓駔駕駖駗駘駙駚駛駜駝駞駟駠駡駢駣駤駥駦駧駨駩駪駫駬駭駮駯駰駱駲駳駴駵駶駷駸駹駺駻駼駽駾駿"
    \o "骀骁骂骃骄骅骆骇骈骉骊骋验骍骎骏骐骑骒骓骔骕骖骗骘骙骚骛骜骝骞骟骠骡骢骣骤骥骦骧骨骩骪骫骬骭骮骯骰骱骲骳骴骵骶骷骸骹骺骻骼骽骾骿髀髁髂髃髄髅髆髇髈髉髊髋髌髍髎髏髐髑髒髓體髕髖髗高髙髚髛髜髝髞髟髠髡髢髣髤髥髦髧髨髩髪髫髬髭髮髯髰髱髲髳髴髵髶髷髸髹髺髻髼髽髾髿"
    \o "鮀鮁鮂鮃鮄鮅鮆鮇鮈鮉鮊鮋鮌鮍鮎鮏鮐鮑鮒鮓鮔鮕鮖鮗鮘鮙鮚鮛鮜鮝鮞鮟鮠鮡鮢鮣鮤鮥鮦鮧鮨鮩鮪鮫鮬鮭鮮鮯鮰鮱鮲鮳鮴鮵鮶鮷鮸鮹鮺鮻鮼鮽鮾鮿鯀鯁鯂鯃鯄鯅鯆鯇鯈鯉鯊鯋鯌鯍鯎鯏鯐鯑鯒鯓鯔鯕鯖鯗鯘鯙鯚鯛鯜鯝鯞鯟鯠鯡鯢鯣鯤鯥鯦鯧鯨鯩鯪鯫鯬鯭鯮鯯鯰鯱鯲鯳鯴鯵鯶鯷鯸鯹鯺鯻鯼鯽鯾鯿"
    \o "鲀鲁鲂鲃鲄鲅鲆鲇鲈鲉鲊鲋鲌鲍鲎鲏鲐鲑鲒鲓鲔鲕鲖鲗鲘鲙鲚鲛鲜鲝鲞鲟鲠鲡鲢鲣鲤鲥鲦鲧鲨鲩鲪鲫鲬鲭鲮鲯鲰鲱鲲鲳鲴鲵鲶鲷鲸鲹鲺鲻鲼鲽鲾鲿鳀鳁鳂鳃鳄鳅鳆鳇鳈鳉鳊鳋鳌鳍鳎鳏鳐鳑鳒鳓鳔鳕鳖鳗鳘鳙鳚鳛鳜鳝鳞鳟鳠鳡鳢鳣鳤鳥鳦鳧鳨鳩鳪鳫鳬鳭鳮鳯鳰鳱鳲鳳鳴鳵鳶鳷鳸鳹鳺鳻鳼鳽鳾鳿"
    \o "鶀鶁鶂鶃鶄鶅鶆鶇鶈鶉鶊鶋鶌鶍鶎鶏鶐鶑鶒鶓鶔鶕鶖鶗鶘鶙鶚鶛鶜鶝鶞鶟鶠鶡鶢鶣鶤鶥鶦鶧鶨鶩鶪鶫鶬鶭鶮鶯鶰鶱鶲鶳鶴鶵鶶鶷鶸鶹鶺鶻鶼鶽鶾鶿鷀鷁鷂鷃鷄鷅鷆鷇鷈鷉鷊鷋鷌鷍鷎鷏鷐鷑鷒鷓鷔鷕鷖鷗鷘鷙鷚鷛鷜鷝鷞鷟鷠鷡鷢鷣鷤鷥鷦鷧鷨鷩鷪鷫鷬鷭鷮鷯鷰鷱鷲鷳鷴鷵鷶鷷鷸鷹鷺鷻鷼鷽鷾鷿"
    \o "麀麁麂麃麄麅麆麇麈麉麊麋麌麍麎麏麐麑麒麓麔麕麖麗麘麙麚麛麜麝麞麟麠麡麢麣麤麥麦麧麨麩麪麫麬麭麮麯麰麱麲麳麴麵麶麷麸麹麺麻麼麽麾麿黀黁黂黃黄黅黆黇黈黉黊黋黌黍黎黏黐黑黒黓黔黕黖黗默黙黚黛黜黝點黟黠黡黢黣黤黥黦黧黨黩黪黫黬黭黮黯黰黱黲黳黴黵黶黷黸黹黺黻黼黽黾黿"
    \o "龀龁龂龃龄龅龆龇龈龉龊龋龌龍龎龏龐龑龒龓龔龕龖龗龘龙龚龛龜龝龞龟龠龡龢龣龤龥龦龧龨龩龪龫龬龭龮龯龰龱龲龳龴龵龶龷龸龹龺龻龼龽龾龿鿀鿁鿂鿃鿄鿅鿆鿇鿈鿉鿊鿋鿌鿍鿎鿏鿐鿑鿒鿓鿔鿕鿖鿗鿘鿙鿚鿛鿜鿝鿞鿟鿠鿡鿢鿣鿤鿥鿦鿧鿨鿩鿪鿫鿬鿭鿮鿯鿰鿱鿲鿳鿴鿵鿶鿷鿸鿹鿺鿻鿼鿽鿾鿿"
    \o "ꂀꂁꂂꂃꂄꂅꂆꂇꂈꂉꂊꂋꂌꂍꂎꂏꂐꂑꂒꂓꂔꂕꂖꂗꂘꂙꂚꂛꂜꂝꂞꂟꂠꂡꂢꂣꂤꂥꂦꂧꂨꂩꂪꂫꂬꂭꂮꂯꂰꂱꂲꂳꂴꂵꂶꂷꂸꂹꂺꂻꂼꂽꂾꂿꃀꃁꃂꃃꃄꃅꃆꃇꃈꃉꃊꃋꃌꃍꃎꃏꃐꃑꃒꃓꃔꃕꃖꃗꃘꃙꃚꃛꃜꃝꃞꃟꃠꃡꃢꃣꃤꃥꃦꃧꃨꃩꃪꃫꃬꃭꃮꃯꃰꃱꃲꃳꃴꃵꃶꃷꃸꃹꃺꃻꃼꃽꃾꃿ"
    \o "ꆀꆁꆂꆃꆄꆅꆆꆇꆈꆉꆊꆋꆌꆍꆎꆏꆐꆑꆒꆓꆔꆕꆖꆗꆘꆙꆚꆛꆜꆝꆞꆟꆠꆡꆢꆣꆤꆥꆦꆧꆨꆩꆪꆫꆬꆭꆮꆯꆰꆱꆲꆳꆴꆵꆶꆷꆸꆹꆺꆻꆼꆽꆾꆿꇀꇁꇂꇃꇄꇅꇆꇇꇈꇉꇊꇋꇌꇍꇎꇏꇐꇑꇒꇓꇔꇕꇖꇗꇘꇙꇚꇛꇜꇝꇞꇟꇠꇡꇢꇣꇤꇥꇦꇧꇨꇩꇪꇫꇬꇭꇮꇯꇰꇱꇲꇳꇴꇵꇶꇷꇸꇹꇺꇻꇼꇽꇾꇿ"
    \o "ꊀꊁꊂꊃꊄꊅꊆꊇꊈꊉꊊꊋꊌꊍꊎꊏꊐꊑꊒꊓꊔꊕꊖꊗꊘꊙꊚꊛꊜꊝꊞꊟꊠꊡꊢꊣꊤꊥꊦꊧꊨꊩꊪꊫꊬꊭꊮꊯꊰꊱꊲꊳꊴꊵꊶꊷꊸꊹꊺꊻꊼꊽꊾꊿꋀꋁꋂꋃꋄꋅꋆꋇꋈꋉꋊꋋꋌꋍꋎꋏꋐꋑꋒꋓꋔꋕꋖꋗꋘꋙꋚꋛꋜꋝꋞꋟꋠꋡꋢꋣꋤꋥꋦꋧꋨꋩꋪꋫꋬꋭꋮꋯꋰꋱꋲꋳꋴꋵꋶꋷꋸꋹꋺꋻꋼꋽꋾꋿ"
    \o "ꎀꎁꎂꎃꎄꎅꎆꎇꎈꎉꎊꎋꎌꎍꎎꎏꎐꎑꎒꎓꎔꎕꎖꎗꎘꎙꎚꎛꎜꎝꎞꎟꎠꎡꎢꎣꎤꎥꎦꎧꎨꎩꎪꎫꎬꎭꎮꎯꎰꎱꎲꎳꎴꎵꎶꎷꎸꎹꎺꎻꎼꎽꎾꎿꏀꏁꏂꏃꏄꏅꏆꏇꏈꏉꏊꏋꏌꏍꏎꏏꏐꏑꏒꏓꏔꏕꏖꏗꏘꏙꏚꏛꏜꏝꏞꏟꏠꏡꏢꏣꏤꏥꏦꏧꏨꏩꏪꏫꏬꏭꏮꏯꏰꏱꏲꏳꏴꏵꏶꏷꏸꏹꏺꏻꏼꏽꏾꏿ"
    \o "ꒀꒁꒂꒃꒄꒅꒆꒇꒈꒉꒊꒋꒌ꒍꒎꒏꒐꒑꒒꒓꒔꒕꒖꒗꒘꒙꒚꒛꒜꒝꒞꒟꒠꒡꒢꒣꒤꒥꒦꒧꒨꒩꒪꒫꒬꒭꒮꒯꒰꒱꒲꒳꒴꒵꒶꒷꒸꒹꒺꒻꒼꒽꒾꒿꓀꓁꓂꓃꓄꓅꓆꓇꓈꓉꓊꓋꓌꓍꓎꓏ꓐꓑꓒꓓꓔꓕꓖꓗꓘꓙꓚꓛꓜꓝꓞꓟꓠꓡꓢꓣꓤꓥꓦꓧꓨꓩꓪꓫꓬꓭꓮꓯꓰꓱꓲꓳꓴꓵꓶꓷꓸꓹꓺꓻꓼꓽ꓾꓿"
    \o "ꖀꖁꖂꖃꖄꖅꖆꖇꖈꖉꖊꖋꖌꖍꖎꖏꖐꖑꖒꖓꖔꖕꖖꖗꖘꖙꖚꖛꖜꖝꖞꖟꖠꖡꖢꖣꖤꖥꖦꖧꖨꖩꖪꖫꖬꖭꖮꖯꖰꖱꖲꖳꖴꖵꖶꖷꖸꖹꖺꖻꖼꖽꖾꖿꗀꗁꗂꗃꗄꗅꗆꗇꗈꗉꗊꗋꗌꗍꗎꗏꗐꗑꗒꗓꗔꗕꗖꗗꗘꗙꗚꗛꗜꗝꗞꗟꗠꗡꗢꗣꗤꗥꗦꗧꗨꗩꗪꗫꗬꗭꗮꗯꗰꗱꗲꗳꗴꗵꗶꗷꗸꗹꗺꗻꗼꗽꗾꗿ"
    \o "ꚀꚁꚂꚃꚄꚅꚆꚇꚈꚉꚊꚋꚌꚍꚎꚏꚐꚑꚒꚓꚔꚕꚖꚗꚘꚙꚚꚛꚜꚝꚞꚟꚠꚡꚢꚣꚤꚥꚦꚧꚨꚩꚪꚫꚬꚭꚮꚯꚰꚱꚲꚳꚴꚵꚶꚷꚸꚹꚺꚻꚼꚽꚾꚿꛀꛁꛂꛃꛄꛅꛆꛇꛈꛉꛊꛋꛌꛍꛎꛏꛐꛑꛒꛓꛔꛕꛖꛗꛘꛙꛚꛛꛜꛝꛞꛟꛠꛡꛢꛣꛤꛥꛦꛧꛨꛩꛪꛫꛬꛭꛮꛯ꛰꛱꛲꛳꛴꛵꛶꛷꛸꛹꛺꛻꛼꛽꛾꛿"
    \o "ꞀꞁꞂꞃꞄꞅꞆꞇꞈ꞉꞊ꞋꞌꞍꞎꞏꞐꞑꞒꞓꞔꞕꞖꞗꞘꞙꞚꞛꞜꞝꞞꞟꞠꞡꞢꞣꞤꞥꞦꞧꞨꞩꞪꞫꞬꞭꞮꞯꞰꞱꞲꞳꞴꞵꞶꞷꞸꞹꞺꞻꞼꞽꞾꞿꟀꟁꟂꟃꟄꟅꟆꟇꟈꟉꟊꟋꟌꟍ꟎꟏Ꟑꟑ꟒ꟓ꟔ꟕꟖꟗꟘꟙꟚꟛꟜ꟝꟞꟟꟠꟡꟢꟣꟤꟥꟦꟧꟨꟩꟪꟫꟬꟭꟮꟯꟰꟱ꟲꟳꟴꟵꟶꟷꟸꟹꟺꟻꟼꟽꟾꟿ"
    \o "ꢀꢁꢂꢃꢄꢅꢆꢇꢈꢉꢊꢋꢌꢍꢎꢏꢐꢑꢒꢓꢔꢕꢖꢗꢘꢙꢚꢛꢜꢝꢞꢟꢠꢡꢢꢣꢤꢥꢦꢧꢨꢩꢪꢫꢬꢭꢮꢯꢰꢱꢲꢳꢴꢵꢶꢷꢸꢹꢺꢻꢼꢽꢾꢿꣀꣁꣂꣃ꣄ꣅ꣆꣇꣈꣉꣊꣋꣌꣍꣎꣏꣐꣑꣒꣓꣔꣕꣖꣗꣘꣙꣚꣛꣜꣝꣞꣟꣠꣡꣢꣣꣤꣥꣦꣧꣨꣩꣪꣫꣬꣭꣮꣯꣰꣱ꣲꣳꣴꣵꣶꣷ꣸꣹꣺ꣻ꣼ꣽꣾꣿ"
    \o "ꦀꦁꦂꦃꦄꦅꦆꦇꦈꦉꦊꦋꦌꦍꦎꦏꦐꦑꦒꦓꦔꦕꦖꦗꦘꦙꦚꦛꦜꦝꦞꦟꦠꦡꦢꦣꦤꦥꦦꦧꦨꦩꦪꦫꦬꦭꦮꦯꦰꦱꦲ꦳ꦴꦵꦶꦷꦸꦹꦺꦻꦼꦽꦾꦿ꧀꧁꧂꧃꧄꧅꧆꧇꧈꧉꧊꧋꧌꧍꧎ꧏ꧐꧑꧒꧓꧔꧕꧖꧗꧘꧙꧚꧛꧜꧝꧞꧟ꧠꧡꧢꧣꧤꧥꧦꧧꧨꧩꧪꧫꧬꧭꧮꧯ꧰꧱꧲꧳꧴꧵꧶꧷꧸꧹ꧺꧻꧼꧽꧾ꧿"
    \o "ꪀꪁꪂꪃꪄꪅꪆꪇꪈꪉꪊꪋꪌꪍꪎꪏꪐꪑꪒꪓꪔꪕꪖꪗꪘꪙꪚꪛꪜꪝꪞꪟꪠꪡꪢꪣꪤꪥꪦꪧꪨꪩꪪꪫꪬꪭꪮꪯꪰꪱꪴꪲꪳꪵꪶꪷꪸꪹꪺꪻꪼꪽꪾ꪿ꫀ꫁ꫂ꫃꫄꫅꫆꫇꫈꫉꫊꫋꫌꫍꫎꫏꫐꫑꫒꫓꫔꫕꫖꫗꫘꫙꫚ꫛꫜꫝ꫞꫟ꫠꫡꫢꫣꫤꫥꫦꫧꫨꫩꫪꫫꫬꫭꫮꫯ꫰꫱ꫲꫳꫴꫵ꫶꫷꫸꫹꫺꫻꫼꫽꫾꫿"
    \o "ꮀꮁꮂꮃꮄꮅꮆꮇꮈꮉꮊꮋꮌꮍꮎꮏꮐꮑꮒꮓꮔꮕꮖꮗꮘꮙꮚꮛꮜꮝꮞꮟꮠꮡꮢꮣꮤꮥꮦꮧꮨꮩꮪꮫꮬꮭꮮꮯꮰꮱꮲꮳꮴꮵꮶꮷꮸꮹꮺꮻꮼꮽꮾꮿꯀꯁꯂꯃꯄꯅꯆꯇꯈꯉꯊꯋꯌꯍꯎꯏꯐꯑꯒꯓꯔꯕꯖꯗꯘꯙꯚꯛꯜꯝꯞꯟꯠꯡꯢꯣꯤꯥꯦꯧꯨꯩꯪ꯫꯬꯭꯮꯯꯰꯱꯲꯳꯴꯵꯶꯷꯸꯹꯺꯻꯼꯽꯾꯿"
    \o "검겁겂것겄겅겆겇겈겉겊겋게겍겎겏겐겑겒겓겔겕겖겗겘겙겚겛겜겝겞겟겠겡겢겣겤겥겦겧겨격겪겫견겭겮겯결겱겲겳겴겵겶겷겸겹겺겻겼경겾겿곀곁곂곃계곅곆곇곈곉곊곋곌곍곎곏곐곑곒곓곔곕곖곗곘곙곚곛곜곝곞곟고곡곢곣곤곥곦곧골곩곪곫곬곭곮곯곰곱곲곳곴공곶곷곸곹곺곻과곽곾곿"
    \o "궀궁궂궃궄궅궆궇궈궉궊궋권궍궎궏궐궑궒궓궔궕궖궗궘궙궚궛궜궝궞궟궠궡궢궣궤궥궦궧궨궩궪궫궬궭궮궯궰궱궲궳궴궵궶궷궸궹궺궻궼궽궾궿귀귁귂귃귄귅귆귇귈귉귊귋귌귍귎귏귐귑귒귓귔귕귖귗귘귙귚귛규귝귞귟균귡귢귣귤귥귦귧귨귩귪귫귬귭귮귯귰귱귲귳귴귵귶귷그극귺귻근귽귾귿"
    \o "꺀꺁꺂꺃꺄꺅꺆꺇꺈꺉꺊꺋꺌꺍꺎꺏꺐꺑꺒꺓꺔꺕꺖꺗꺘꺙꺚꺛꺜꺝꺞꺟꺠꺡꺢꺣꺤꺥꺦꺧꺨꺩꺪꺫꺬꺭꺮꺯꺰꺱꺲꺳꺴꺵꺶꺷꺸꺹꺺꺻꺼꺽꺾꺿껀껁껂껃껄껅껆껇껈껉껊껋껌껍껎껏껐껑껒껓껔껕껖껗께껙껚껛껜껝껞껟껠껡껢껣껤껥껦껧껨껩껪껫껬껭껮껯껰껱껲껳껴껵껶껷껸껹껺껻껼껽껾껿"
    \o "꾀꾁꾂꾃꾄꾅꾆꾇꾈꾉꾊꾋꾌꾍꾎꾏꾐꾑꾒꾓꾔꾕꾖꾗꾘꾙꾚꾛꾜꾝꾞꾟꾠꾡꾢꾣꾤꾥꾦꾧꾨꾩꾪꾫꾬꾭꾮꾯꾰꾱꾲꾳꾴꾵꾶꾷꾸꾹꾺꾻꾼꾽꾾꾿꿀꿁꿂꿃꿄꿅꿆꿇꿈꿉꿊꿋꿌꿍꿎꿏꿐꿑꿒꿓꿔꿕꿖꿗꿘꿙꿚꿛꿜꿝꿞꿟꿠꿡꿢꿣꿤꿥꿦꿧꿨꿩꿪꿫꿬꿭꿮꿯꿰꿱꿲꿳꿴꿵꿶꿷꿸꿹꿺꿻꿼꿽꿾꿿"
    \o "낀낁낂낃낄낅낆낇낈낉낊낋낌낍낎낏낐낑낒낓낔낕낖낗나낙낚낛난낝낞낟날낡낢낣낤낥낦낧남납낪낫났낭낮낯낰낱낲낳내낵낶낷낸낹낺낻낼낽낾낿냀냁냂냃냄냅냆냇냈냉냊냋냌냍냎냏냐냑냒냓냔냕냖냗냘냙냚냛냜냝냞냟냠냡냢냣냤냥냦냧냨냩냪냫냬냭냮냯냰냱냲냳냴냵냶냷냸냹냺냻냼냽냾냿"
    \o "놀놁놂놃놄놅놆놇놈놉놊놋놌농놎놏놐놑높놓놔놕놖놗놘놙놚놛놜놝놞놟놠놡놢놣놤놥놦놧놨놩놪놫놬놭놮놯놰놱놲놳놴놵놶놷놸놹놺놻놼놽놾놿뇀뇁뇂뇃뇄뇅뇆뇇뇈뇉뇊뇋뇌뇍뇎뇏뇐뇑뇒뇓뇔뇕뇖뇗뇘뇙뇚뇛뇜뇝뇞뇟뇠뇡뇢뇣뇤뇥뇦뇧뇨뇩뇪뇫뇬뇭뇮뇯뇰뇱뇲뇳뇴뇵뇶뇷뇸뇹뇺뇻뇼뇽뇾뇿"
    \o "늀늁늂늃늄늅늆늇늈늉늊늋늌늍늎늏느늑늒늓는늕늖늗늘늙늚늛늜늝늞늟늠늡늢늣늤능늦늧늨늩늪늫늬늭늮늯늰늱늲늳늴늵늶늷늸늹늺늻늼늽늾늿닀닁닂닃닄닅닆닇니닉닊닋닌닍닎닏닐닑닒닓닔닕닖닗님닙닚닛닜닝닞닟닠닡닢닣다닥닦닧단닩닪닫달닭닮닯닰닱닲닳담답닶닷닸당닺닻닼닽닾닿"
    \o "뎀뎁뎂뎃뎄뎅뎆뎇뎈뎉뎊뎋뎌뎍뎎뎏뎐뎑뎒뎓뎔뎕뎖뎗뎘뎙뎚뎛뎜뎝뎞뎟뎠뎡뎢뎣뎤뎥뎦뎧뎨뎩뎪뎫뎬뎭뎮뎯뎰뎱뎲뎳뎴뎵뎶뎷뎸뎹뎺뎻뎼뎽뎾뎿돀돁돂돃도독돆돇돈돉돊돋돌돍돎돏돐돑돒돓돔돕돖돗돘동돚돛돜돝돞돟돠돡돢돣돤돥돦돧돨돩돪돫돬돭돮돯돰돱돲돳돴돵돶돷돸돹돺돻돼돽돾돿"
    \o "뒀뒁뒂뒃뒄뒅뒆뒇뒈뒉뒊뒋뒌뒍뒎뒏뒐뒑뒒뒓뒔뒕뒖뒗뒘뒙뒚뒛뒜뒝뒞뒟뒠뒡뒢뒣뒤뒥뒦뒧뒨뒩뒪뒫뒬뒭뒮뒯뒰뒱뒲뒳뒴뒵뒶뒷뒸뒹뒺뒻뒼뒽뒾뒿듀듁듂듃듄듅듆듇듈듉듊듋듌듍듎듏듐듑듒듓듔듕듖듗듘듙듚듛드득듞듟든듡듢듣들듥듦듧듨듩듪듫듬듭듮듯듰등듲듳듴듵듶듷듸듹듺듻듼듽듾듿"
    \o "떀떁떂떃떄떅떆떇떈떉떊떋떌떍떎떏떐떑떒떓떔떕떖떗떘떙떚떛떜떝떞떟떠떡떢떣떤떥떦떧떨떩떪떫떬떭떮떯떰떱떲떳떴떵떶떷떸떹떺떻떼떽떾떿뗀뗁뗂뗃뗄뗅뗆뗇뗈뗉뗊뗋뗌뗍뗎뗏뗐뗑뗒뗓뗔뗕뗖뗗뗘뗙뗚뗛뗜뗝뗞뗟뗠뗡뗢뗣뗤뗥뗦뗧뗨뗩뗪뗫뗬뗭뗮뗯뗰뗱뗲뗳뗴뗵뗶뗷뗸뗹뗺뗻뗼뗽뗾뗿"
    \o "뚀뚁뚂뚃뚄뚅뚆뚇뚈뚉뚊뚋뚌뚍뚎뚏뚐뚑뚒뚓뚔뚕뚖뚗뚘뚙뚚뚛뚜뚝뚞뚟뚠뚡뚢뚣뚤뚥뚦뚧뚨뚩뚪뚫뚬뚭뚮뚯뚰뚱뚲뚳뚴뚵뚶뚷뚸뚹뚺뚻뚼뚽뚾뚿뛀뛁뛂뛃뛄뛅뛆뛇뛈뛉뛊뛋뛌뛍뛎뛏뛐뛑뛒뛓뛔뛕뛖뛗뛘뛙뛚뛛뛜뛝뛞뛟뛠뛡뛢뛣뛤뛥뛦뛧뛨뛩뛪뛫뛬뛭뛮뛯뛰뛱뛲뛳뛴뛵뛶뛷뛸뛹뛺뛻뛼뛽뛾뛿"
    \o "란랁랂랃랄랅랆랇랈랉랊랋람랍랎랏랐랑랒랓랔랕랖랗래랙랚랛랜랝랞랟랠랡랢랣랤랥랦랧램랩랪랫랬랭랮랯랰랱랲랳랴략랶랷랸랹랺랻랼랽랾랿럀럁럂럃럄럅럆럇럈량럊럋럌럍럎럏럐럑럒럓럔럕럖럗럘럙럚럛럜럝럞럟럠럡럢럣럤럥럦럧럨럩럪럫러럭럮럯런럱럲럳럴럵럶럷럸럹럺럻럼럽럾럿"
    \o "뢀뢁뢂뢃뢄뢅뢆뢇뢈뢉뢊뢋뢌뢍뢎뢏뢐뢑뢒뢓뢔뢕뢖뢗뢘뢙뢚뢛뢜뢝뢞뢟뢠뢡뢢뢣뢤뢥뢦뢧뢨뢩뢪뢫뢬뢭뢮뢯뢰뢱뢲뢳뢴뢵뢶뢷뢸뢹뢺뢻뢼뢽뢾뢿룀룁룂룃룄룅룆룇룈룉룊룋료룍룎룏룐룑룒룓룔룕룖룗룘룙룚룛룜룝룞룟룠룡룢룣룤룥룦룧루룩룪룫룬룭룮룯룰룱룲룳룴룵룶룷룸룹룺룻룼룽룾룿"
    \o "릀릁릂릃름릅릆릇릈릉릊릋릌릍릎릏릐릑릒릓릔릕릖릗릘릙릚릛릜릝릞릟릠릡릢릣릤릥릦릧릨릩릪릫리릭릮릯린릱릲릳릴릵릶릷릸릹릺릻림립릾릿맀링맂맃맄맅맆맇마막맊맋만맍많맏말맑맒맓맔맕맖맗맘맙맚맛맜망맞맟맠맡맢맣매맥맦맧맨맩맪맫맬맭맮맯맰맱맲맳맴맵맶맷맸맹맺맻맼맽맾맿"
    \o "몀몁몂몃몄명몆몇몈몉몊몋몌몍몎몏몐몑몒몓몔몕몖몗몘몙몚몛몜몝몞몟몠몡몢몣몤몥몦몧모목몪몫몬몭몮몯몰몱몲몳몴몵몶몷몸몹몺못몼몽몾몿뫀뫁뫂뫃뫄뫅뫆뫇뫈뫉뫊뫋뫌뫍뫎뫏뫐뫑뫒뫓뫔뫕뫖뫗뫘뫙뫚뫛뫜뫝뫞뫟뫠뫡뫢뫣뫤뫥뫦뫧뫨뫩뫪뫫뫬뫭뫮뫯뫰뫱뫲뫳뫴뫵뫶뫷뫸뫹뫺뫻뫼뫽뫾뫿"
    \o "뮀뮁뮂뮃뮄뮅뮆뮇뮈뮉뮊뮋뮌뮍뮎뮏뮐뮑뮒뮓뮔뮕뮖뮗뮘뮙뮚뮛뮜뮝뮞뮟뮠뮡뮢뮣뮤뮥뮦뮧뮨뮩뮪뮫뮬뮭뮮뮯뮰뮱뮲뮳뮴뮵뮶뮷뮸뮹뮺뮻뮼뮽뮾뮿므믁믂믃믄믅믆믇믈믉믊믋믌믍믎믏믐믑믒믓믔믕믖믗믘믙믚믛믜믝믞믟믠믡믢믣믤믥믦믧믨믩믪믫믬믭믮믯믰믱믲믳믴믵믶믷미믹믺믻민믽믾믿"
    \o "벀벁벂벃버벅벆벇번벉벊벋벌벍벎벏벐벑벒벓범법벖벗벘벙벚벛벜벝벞벟베벡벢벣벤벥벦벧벨벩벪벫벬벭벮벯벰벱벲벳벴벵벶벷벸벹벺벻벼벽벾벿변볁볂볃별볅볆볇볈볉볊볋볌볍볎볏볐병볒볓볔볕볖볗볘볙볚볛볜볝볞볟볠볡볢볣볤볥볦볧볨볩볪볫볬볭볮볯볰볱볲볳보복볶볷본볹볺볻볼볽볾볿"
    \o "부북붂붃분붅붆붇불붉붊붋붌붍붎붏붐붑붒붓붔붕붖붗붘붙붚붛붜붝붞붟붠붡붢붣붤붥붦붧붨붩붪붫붬붭붮붯붰붱붲붳붴붵붶붷붸붹붺붻붼붽붾붿뷀뷁뷂뷃뷄뷅뷆뷇뷈뷉뷊뷋뷌뷍뷎뷏뷐뷑뷒뷓뷔뷕뷖뷗뷘뷙뷚뷛뷜뷝뷞뷟뷠뷡뷢뷣뷤뷥뷦뷧뷨뷩뷪뷫뷬뷭뷮뷯뷰뷱뷲뷳뷴뷵뷶뷷뷸뷹뷺뷻뷼뷽뷾뷿"
    \o "뺀뺁뺂뺃뺄뺅뺆뺇뺈뺉뺊뺋뺌뺍뺎뺏뺐뺑뺒뺓뺔뺕뺖뺗뺘뺙뺚뺛뺜뺝뺞뺟뺠뺡뺢뺣뺤뺥뺦뺧뺨뺩뺪뺫뺬뺭뺮뺯뺰뺱뺲뺳뺴뺵뺶뺷뺸뺹뺺뺻뺼뺽뺾뺿뻀뻁뻂뻃뻄뻅뻆뻇뻈뻉뻊뻋뻌뻍뻎뻏뻐뻑뻒뻓뻔뻕뻖뻗뻘뻙뻚뻛뻜뻝뻞뻟뻠뻡뻢뻣뻤뻥뻦뻧뻨뻩뻪뻫뻬뻭뻮뻯뻰뻱뻲뻳뻴뻵뻶뻷뻸뻹뻺뻻뻼뻽뻾뻿"
    \o "뾀뾁뾂뾃뾄뾅뾆뾇뾈뾉뾊뾋뾌뾍뾎뾏뾐뾑뾒뾓뾔뾕뾖뾗뾘뾙뾚뾛뾜뾝뾞뾟뾠뾡뾢뾣뾤뾥뾦뾧뾨뾩뾪뾫뾬뾭뾮뾯뾰뾱뾲뾳뾴뾵뾶뾷뾸뾹뾺뾻뾼뾽뾾뾿뿀뿁뿂뿃뿄뿅뿆뿇뿈뿉뿊뿋뿌뿍뿎뿏뿐뿑뿒뿓뿔뿕뿖뿗뿘뿙뿚뿛뿜뿝뿞뿟뿠뿡뿢뿣뿤뿥뿦뿧뿨뿩뿪뿫뿬뿭뿮뿯뿰뿱뿲뿳뿴뿵뿶뿷뿸뿹뿺뿻뿼뿽뿾뿿"
    \o "삀삁삂삃삄삅삆삇삈삉삊삋삌삍삎삏삐삑삒삓삔삕삖삗삘삙삚삛삜삝삞삟삠삡삢삣삤삥삦삧삨삩삪삫사삭삮삯산삱삲삳살삵삶삷삸삹삺삻삼삽삾삿샀상샂샃샄샅샆샇새색샊샋샌샍샎샏샐샑샒샓샔샕샖샗샘샙샚샛샜생샞샟샠샡샢샣샤샥샦샧샨샩샪샫샬샭샮샯샰샱샲샳샴샵샶샷샸샹샺샻샼샽샾샿"
    \o "솀솁솂솃솄솅솆솇솈솉솊솋소속솎솏손솑솒솓솔솕솖솗솘솙솚솛솜솝솞솟솠송솢솣솤솥솦솧솨솩솪솫솬솭솮솯솰솱솲솳솴솵솶솷솸솹솺솻솼솽솾솿쇀쇁쇂쇃쇄쇅쇆쇇쇈쇉쇊쇋쇌쇍쇎쇏쇐쇑쇒쇓쇔쇕쇖쇗쇘쇙쇚쇛쇜쇝쇞쇟쇠쇡쇢쇣쇤쇥쇦쇧쇨쇩쇪쇫쇬쇭쇮쇯쇰쇱쇲쇳쇴쇵쇶쇷쇸쇹쇺쇻쇼쇽쇾쇿"
    \o "슀슁슂슃슄슅슆슇슈슉슊슋슌슍슎슏슐슑슒슓슔슕슖슗슘슙슚슛슜슝슞슟슠슡슢슣스슥슦슧슨슩슪슫슬슭슮슯슰슱슲슳슴습슶슷슸승슺슻슼슽슾슿싀싁싂싃싄싅싆싇싈싉싊싋싌싍싎싏싐싑싒싓싔싕싖싗싘싙싚싛시식싞싟신싡싢싣실싥싦싧싨싩싪싫심십싮싯싰싱싲싳싴싵싶싷싸싹싺싻싼싽싾싿"
    \o "쎀쎁쎂쎃쎄쎅쎆쎇쎈쎉쎊쎋쎌쎍쎎쎏쎐쎑쎒쎓쎔쎕쎖쎗쎘쎙쎚쎛쎜쎝쎞쎟쎠쎡쎢쎣쎤쎥쎦쎧쎨쎩쎪쎫쎬쎭쎮쎯쎰쎱쎲쎳쎴쎵쎶쎷쎸쎹쎺쎻쎼쎽쎾쎿쏀쏁쏂쏃쏄쏅쏆쏇쏈쏉쏊쏋쏌쏍쏎쏏쏐쏑쏒쏓쏔쏕쏖쏗쏘쏙쏚쏛쏜쏝쏞쏟쏠쏡쏢쏣쏤쏥쏦쏧쏨쏩쏪쏫쏬쏭쏮쏯쏰쏱쏲쏳쏴쏵쏶쏷쏸쏹쏺쏻쏼쏽쏾쏿"
    \o "쒀쒁쒂쒃쒄쒅쒆쒇쒈쒉쒊쒋쒌쒍쒎쒏쒐쒑쒒쒓쒔쒕쒖쒗쒘쒙쒚쒛쒜쒝쒞쒟쒠쒡쒢쒣쒤쒥쒦쒧쒨쒩쒪쒫쒬쒭쒮쒯쒰쒱쒲쒳쒴쒵쒶쒷쒸쒹쒺쒻쒼쒽쒾쒿쓀쓁쓂쓃쓄쓅쓆쓇쓈쓉쓊쓋쓌쓍쓎쓏쓐쓑쓒쓓쓔쓕쓖쓗쓘쓙쓚쓛쓜쓝쓞쓟쓠쓡쓢쓣쓤쓥쓦쓧쓨쓩쓪쓫쓬쓭쓮쓯쓰쓱쓲쓳쓴쓵쓶쓷쓸쓹쓺쓻쓼쓽쓾쓿"
    \o "얀얁얂얃얄얅얆얇얈얉얊얋얌얍얎얏얐양얒얓얔얕얖얗얘얙얚얛얜얝얞얟얠얡얢얣얤얥얦얧얨얩얪얫얬얭얮얯얰얱얲얳어억얶얷언얹얺얻얼얽얾얿엀엁엂엃엄업없엇었엉엊엋엌엍엎엏에엑엒엓엔엕엖엗엘엙엚엛엜엝엞엟엠엡엢엣엤엥엦엧엨엩엪엫여역엮엯연엱엲엳열엵엶엷엸엹엺엻염엽엾엿"
    \o "욀욁욂욃욄욅욆욇욈욉욊욋욌욍욎욏욐욑욒욓요욕욖욗욘욙욚욛욜욝욞욟욠욡욢욣욤욥욦욧욨용욪욫욬욭욮욯우욱욲욳운욵욶욷울욹욺욻욼욽욾욿움웁웂웃웄웅웆웇웈웉웊웋워웍웎웏원웑웒웓월웕웖웗웘웙웚웛웜웝웞웟웠웡웢웣웤웥웦웧웨웩웪웫웬웭웮웯웰웱웲웳웴웵웶웷웸웹웺웻웼웽웾웿"
    \o "잀잁잂잃임입잆잇있잉잊잋잌잍잎잏자작잒잓잔잕잖잗잘잙잚잛잜잝잞잟잠잡잢잣잤장잦잧잨잩잪잫재잭잮잯잰잱잲잳잴잵잶잷잸잹잺잻잼잽잾잿쟀쟁쟂쟃쟄쟅쟆쟇쟈쟉쟊쟋쟌쟍쟎쟏쟐쟑쟒쟓쟔쟕쟖쟗쟘쟙쟚쟛쟜쟝쟞쟟쟠쟡쟢쟣쟤쟥쟦쟧쟨쟩쟪쟫쟬쟭쟮쟯쟰쟱쟲쟳쟴쟵쟶쟷쟸쟹쟺쟻쟼쟽쟾쟿"
    \o "좀좁좂좃좄종좆좇좈좉좊좋좌좍좎좏좐좑좒좓좔좕좖좗좘좙좚좛좜좝좞좟좠좡좢좣좤좥좦좧좨좩좪좫좬좭좮좯좰좱좲좳좴좵좶좷좸좹좺좻좼좽좾좿죀죁죂죃죄죅죆죇죈죉죊죋죌죍죎죏죐죑죒죓죔죕죖죗죘죙죚죛죜죝죞죟죠죡죢죣죤죥죦죧죨죩죪죫죬죭죮죯죰죱죲죳죴죵죶죷죸죹죺죻주죽죾죿"
    \o "즀즁즂즃즄즅즆즇즈즉즊즋즌즍즎즏즐즑즒즓즔즕즖즗즘즙즚즛즜증즞즟즠즡즢즣즤즥즦즧즨즩즪즫즬즭즮즯즰즱즲즳즴즵즶즷즸즹즺즻즼즽즾즿지직짂짃진짅짆짇질짉짊짋짌짍짎짏짐집짒짓짔징짖짗짘짙짚짛짜짝짞짟짠짡짢짣짤짥짦짧짨짩짪짫짬짭짮짯짰짱짲짳짴짵짶짷째짹짺짻짼짽짾짿"
    \o "쪀쪁쪂쪃쪄쪅쪆쪇쪈쪉쪊쪋쪌쪍쪎쪏쪐쪑쪒쪓쪔쪕쪖쪗쪘쪙쪚쪛쪜쪝쪞쪟쪠쪡쪢쪣쪤쪥쪦쪧쪨쪩쪪쪫쪬쪭쪮쪯쪰쪱쪲쪳쪴쪵쪶쪷쪸쪹쪺쪻쪼쪽쪾쪿쫀쫁쫂쫃쫄쫅쫆쫇쫈쫉쫊쫋쫌쫍쫎쫏쫐쫑쫒쫓쫔쫕쫖쫗쫘쫙쫚쫛쫜쫝쫞쫟쫠쫡쫢쫣쫤쫥쫦쫧쫨쫩쫪쫫쫬쫭쫮쫯쫰쫱쫲쫳쫴쫵쫶쫷쫸쫹쫺쫻쫼쫽쫾쫿"
    \o "쮀쮁쮂쮃쮄쮅쮆쮇쮈쮉쮊쮋쮌쮍쮎쮏쮐쮑쮒쮓쮔쮕쮖쮗쮘쮙쮚쮛쮜쮝쮞쮟쮠쮡쮢쮣쮤쮥쮦쮧쮨쮩쮪쮫쮬쮭쮮쮯쮰쮱쮲쮳쮴쮵쮶쮷쮸쮹쮺쮻쮼쮽쮾쮿쯀쯁쯂쯃쯄쯅쯆쯇쯈쯉쯊쯋쯌쯍쯎쯏쯐쯑쯒쯓쯔쯕쯖쯗쯘쯙쯚쯛쯜쯝쯞쯟쯠쯡쯢쯣쯤쯥쯦쯧쯨쯩쯪쯫쯬쯭쯮쯯쯰쯱쯲쯳쯴쯵쯶쯷쯸쯹쯺쯻쯼쯽쯾쯿"
    \o "첀첁첂첃첄첅첆첇첈첉첊첋첌첍첎첏첐첑첒첓첔첕첖첗처척첚첛천첝첞첟철첡첢첣첤첥첦첧첨첩첪첫첬청첮첯첰첱첲첳체첵첶첷첸첹첺첻첼첽첾첿쳀쳁쳂쳃쳄쳅쳆쳇쳈쳉쳊쳋쳌쳍쳎쳏쳐쳑쳒쳓쳔쳕쳖쳗쳘쳙쳚쳛쳜쳝쳞쳟쳠쳡쳢쳣쳤쳥쳦쳧쳨쳩쳪쳫쳬쳭쳮쳯쳰쳱쳲쳳쳴쳵쳶쳷쳸쳹쳺쳻쳼쳽쳾쳿"
    \o "춀춁춂춃춄춅춆춇춈춉춊춋춌춍춎춏춐춑춒춓추축춖춗춘춙춚춛출춝춞춟춠춡춢춣춤춥춦춧춨충춪춫춬춭춮춯춰춱춲춳춴춵춶춷춸춹춺춻춼춽춾춿췀췁췂췃췄췅췆췇췈췉췊췋췌췍췎췏췐췑췒췓췔췕췖췗췘췙췚췛췜췝췞췟췠췡췢췣췤췥췦췧취췩췪췫췬췭췮췯췰췱췲췳췴췵췶췷췸췹췺췻췼췽췾췿"
    \o "캀캁캂캃캄캅캆캇캈캉캊캋캌캍캎캏캐캑캒캓캔캕캖캗캘캙캚캛캜캝캞캟캠캡캢캣캤캥캦캧캨캩캪캫캬캭캮캯캰캱캲캳캴캵캶캷캸캹캺캻캼캽캾캿컀컁컂컃컄컅컆컇컈컉컊컋컌컍컎컏컐컑컒컓컔컕컖컗컘컙컚컛컜컝컞컟컠컡컢컣커컥컦컧컨컩컪컫컬컭컮컯컰컱컲컳컴컵컶컷컸컹컺컻컼컽컾컿"
    \o "쾀쾁쾂쾃쾄쾅쾆쾇쾈쾉쾊쾋쾌쾍쾎쾏쾐쾑쾒쾓쾔쾕쾖쾗쾘쾙쾚쾛쾜쾝쾞쾟쾠쾡쾢쾣쾤쾥쾦쾧쾨쾩쾪쾫쾬쾭쾮쾯쾰쾱쾲쾳쾴쾵쾶쾷쾸쾹쾺쾻쾼쾽쾾쾿쿀쿁쿂쿃쿄쿅쿆쿇쿈쿉쿊쿋쿌쿍쿎쿏쿐쿑쿒쿓쿔쿕쿖쿗쿘쿙쿚쿛쿜쿝쿞쿟쿠쿡쿢쿣쿤쿥쿦쿧쿨쿩쿪쿫쿬쿭쿮쿯쿰쿱쿲쿳쿴쿵쿶쿷쿸쿹쿺쿻쿼쿽쿾쿿"
    \o "킀킁킂킃킄킅킆킇킈킉킊킋킌킍킎킏킐킑킒킓킔킕킖킗킘킙킚킛킜킝킞킟킠킡킢킣키킥킦킧킨킩킪킫킬킭킮킯킰킱킲킳킴킵킶킷킸킹킺킻킼킽킾킿타탁탂탃탄탅탆탇탈탉탊탋탌탍탎탏탐탑탒탓탔탕탖탗탘탙탚탛태택탞탟탠탡탢탣탤탥탦탧탨탩탪탫탬탭탮탯탰탱탲탳탴탵탶탷탸탹탺탻탼탽탾탿"
    \o "톀톁톂톃톄톅톆톇톈톉톊톋톌톍톎톏톐톑톒톓톔톕톖톗톘톙톚톛톜톝톞톟토톡톢톣톤톥톦톧톨톩톪톫톬톭톮톯톰톱톲톳톴통톶톷톸톹톺톻톼톽톾톿퇀퇁퇂퇃퇄퇅퇆퇇퇈퇉퇊퇋퇌퇍퇎퇏퇐퇑퇒퇓퇔퇕퇖퇗퇘퇙퇚퇛퇜퇝퇞퇟퇠퇡퇢퇣퇤퇥퇦퇧퇨퇩퇪퇫퇬퇭퇮퇯퇰퇱퇲퇳퇴퇵퇶퇷퇸퇹퇺퇻퇼퇽퇾퇿"
    \o "튀튁튂튃튄튅튆튇튈튉튊튋튌튍튎튏튐튑튒튓튔튕튖튗튘튙튚튛튜튝튞튟튠튡튢튣튤튥튦튧튨튩튪튫튬튭튮튯튰튱튲튳튴튵튶튷트특튺튻튼튽튾튿틀틁틂틃틄틅틆틇틈틉틊틋틌틍틎틏틐틑틒틓틔틕틖틗틘틙틚틛틜틝틞틟틠틡틢틣틤틥틦틧틨틩틪틫틬틭틮틯티틱틲틳틴틵틶틷틸틹틺틻틼틽틾틿"
    \o "펀펁펂펃펄펅펆펇펈펉펊펋펌펍펎펏펐펑펒펓펔펕펖펗페펙펚펛펜펝펞펟펠펡펢펣펤펥펦펧펨펩펪펫펬펭펮펯펰펱펲펳펴펵펶펷편펹펺펻펼펽펾펿폀폁폂폃폄폅폆폇폈평폊폋폌폍폎폏폐폑폒폓폔폕폖폗폘폙폚폛폜폝폞폟폠폡폢폣폤폥폦폧폨폩폪폫포폭폮폯폰폱폲폳폴폵폶폷폸폹폺폻폼폽폾폿"
    \o "풀풁풂풃풄풅풆풇품풉풊풋풌풍풎풏풐풑풒풓풔풕풖풗풘풙풚풛풜풝풞풟풠풡풢풣풤풥풦풧풨풩풪풫풬풭풮풯풰풱풲풳풴풵풶풷풸풹풺풻풼풽풾풿퓀퓁퓂퓃퓄퓅퓆퓇퓈퓉퓊퓋퓌퓍퓎퓏퓐퓑퓒퓓퓔퓕퓖퓗퓘퓙퓚퓛퓜퓝퓞퓟퓠퓡퓢퓣퓤퓥퓦퓧퓨퓩퓪퓫퓬퓭퓮퓯퓰퓱퓲퓳퓴퓵퓶퓷퓸퓹퓺퓻퓼퓽퓾퓿"
    \o "햀햁햂햃햄햅햆햇했행햊햋햌햍햎햏햐햑햒햓햔햕햖햗햘햙햚햛햜햝햞햟햠햡햢햣햤향햦햧햨햩햪햫햬햭햮햯햰햱햲햳햴햵햶햷햸햹햺햻햼햽햾햿헀헁헂헃헄헅헆헇허헉헊헋헌헍헎헏헐헑헒헓헔헕헖헗험헙헚헛헜헝헞헟헠헡헢헣헤헥헦헧헨헩헪헫헬헭헮헯헰헱헲헳헴헵헶헷헸헹헺헻헼헽헾헿"
    \o "횀횁횂횃횄횅횆횇횈횉횊횋회획횎횏횐횑횒횓횔횕횖횗횘횙횚횛횜횝횞횟횠횡횢횣횤횥횦횧효횩횪횫횬횭횮횯횰횱횲횳횴횵횶횷횸횹횺횻횼횽횾횿훀훁훂훃후훅훆훇훈훉훊훋훌훍훎훏훐훑훒훓훔훕훖훗훘훙훚훛훜훝훞훟훠훡훢훣훤훥훦훧훨훩훪훫훬훭훮훯훰훱훲훳훴훵훶훷훸훹훺훻훼훽훾훿"
    \o "힀힁힂힃힄힅힆힇히힉힊힋힌힍힎힏힐힑힒힓힔힕힖힗힘힙힚힛힜힝힞힟힠힡힢힣힤힥힦힧힨힩힪힫힬힭힮힯ힰힱힲힳힴힵힶힷힸힹힺힻힼힽힾힿퟀퟁퟂퟃퟄퟅퟆ퟇퟈퟉퟊ퟋퟌퟍퟎퟏퟐퟑퟒퟓퟔퟕퟖퟗퟘퟙퟚퟛퟜퟝퟞퟟퟠퟡퟢퟣퟤퟥퟦퟧퟨퟩퟪퟫퟬퟭퟮퟯퟰퟱퟲퟳퟴퟵퟶퟷퟸퟹퟺퟻ퟼퟽퟾퟿"
    \o ""
    \o ""
    \o ""
    \o ""
    \o ""
    \o ""
    \o ""
    \o ""
    \o ""
    \o ""
    \o ""
    \o ""
    \o ""
    \o ""
    \o ""
    \o ""
    \o ""
    \o ""
    \o ""
    \o ""
    \o ""
    \o ""
    \o ""
    \o ""
    \o ""
    \o "呂女廬旅濾礪閭驪麗黎力曆歷轢年憐戀撚漣煉璉秊練聯輦蓮連鍊列劣咽烈裂說廉念捻殮簾獵令囹寧嶺怜玲瑩羚聆鈴零靈領例禮醴隸惡了僚寮尿料樂燎療蓼遼龍暈阮劉杻柳流溜琉留硫紐類六戮陸倫崙淪輪律慄栗率隆利吏履易李梨泥理痢罹裏裡里離匿溺吝燐璘藺隣鱗麟林淋臨立笠粒狀炙識什茶刺"
    \o "婢嬨廒廙彩徭惘慎愈憎慠懲戴揄搜摒敖晴朗望杖歹殺流滛滋漢瀞煮瞧爵犯猪瑱甆画瘝瘟益盛直睊着磌窱節类絛練缾者荒華蝹襁覆視調諸請謁諾諭謹變贈輸遲醙鉶陼難靖韛響頋頻鬒龜𢡊𢡄𣏕㮝䀘䀹𥉉𥳐𧻓齃龎﫚﫛﫜﫝﫞﫟﫠﫡﫢﫣﫤﫥﫦﫧﫨﫩﫪﫫﫬﫭﫮﫯﫰﫱﫲﫳﫴﫵﫶﫷﫸﫹﫺﫻﫼﫽﫾﫿"
    \o "ﮀﮁﮂﮃﮄﮅﮆﮇﮈﮉﮊﮋﮌﮍﮎﮏﮐﮑﮒﮓﮔﮕﮖﮗﮘﮙﮚﮛﮜﮝﮞﮟﮠﮡﮢﮣﮤﮥﮦﮧﮨﮩﮪﮫﮬﮭﮮﮯﮰﮱ﮲﮳﮴﮵﮶﮷﮸﮹﮺﮻﮼﮽﮾﮿﯀﯁﯂﯃﯄﯅﯆﯇﯈﯉﯊﯋﯌﯍﯎﯏﯐﯑﯒ﯓﯔﯕﯖﯗﯘﯙﯚﯛﯜﯝﯞﯟﯠﯡﯢﯣﯤﯥﯦﯧﯨﯩﯪﯫﯬﯭﯮﯯﯰﯱﯲﯳﯴﯵﯶﯷﯸﯹﯺﯻﯼﯽﯾﯿ"
    \o "ﲀﲁﲂﲃﲄﲅﲆﲇﲈﲉﲊﲋﲌﲍﲎﲏﲐﲑﲒﲓﲔﲕﲖﲗﲘﲙﲚﲛﲜﲝﲞﲟﲠﲡﲢﲣﲤﲥﲦﲧﲨﲩﲪﲫﲬﲭﲮﲯﲰﲱﲲﲳﲴﲵﲶﲷﲸﲹﲺﲻﲼﲽﲾﲿﳀﳁﳂﳃﳄﳅﳆﳇﳈﳉﳊﳋﳌﳍﳎﳏﳐﳑﳒﳓﳔﳕﳖﳗﳘﳙﳚﳛﳜﳝﳞﳟﳠﳡﳢﳣﳤﳥﳦﳧﳨﳩﳪﳫﳬﳭﳮﳯﳰﳱﳲﳳﳴﳵﳶﳷﳸﳹﳺﳻﳼﳽﳾﳿ"
    \o "ﶀﶁﶂﶃﶄﶅﶆﶇﶈﶉﶊﶋﶌﶍﶎﶏ﶐﶑ﶒﶓﶔﶕﶖﶗﶘﶙﶚﶛﶜﶝﶞﶟﶠﶡﶢﶣﶤﶥﶦﶧﶨﶩﶪﶫﶬﶭﶮﶯﶰﶱﶲﶳﶴﶵﶶﶷﶸﶹﶺﶻﶼﶽﶾﶿﷀﷁﷂﷃﷄﷅﷆﷇ﷈﷉﷊﷋﷌﷍﷎﷏﷐﷑﷒﷓﷔﷕﷖﷗﷘﷙﷚﷛﷜﷝﷞﷟﷠﷡﷢﷣﷤﷥﷦﷧﷨﷩﷪﷫﷬﷭﷮﷯ﷰﷱﷲﷳﷴﷵﷶﷷﷸﷹﷺﷻ﷼﷽﷾﷿"
    \o "ﺀﺁﺂﺃﺄﺅﺆﺇﺈﺉﺊﺋﺌﺍﺎﺏﺐﺑﺒﺓﺔﺕﺖﺗﺘﺙﺚﺛﺜﺝﺞﺟﺠﺡﺢﺣﺤﺥﺦﺧﺨﺩﺪﺫﺬﺭﺮﺯﺰﺱﺲﺳﺴﺵﺶﺷﺸﺹﺺﺻﺼﺽﺾﺿﻀﻁﻂﻃﻄﻅﻆﻇﻈﻉﻊﻋﻌﻍﻎﻏﻐﻑﻒﻓﻔﻕﻖﻗﻘﻙﻚﻛﻜﻝﻞﻟﻠﻡﻢﻣﻤﻥﻦﻧﻨﻩﻪﻫﻬﻭﻮﻯﻰﻱﻲﻳﻴﻵﻶﻷﻸﻹﻺﻻﻼ﻽﻾﻿"
    \o "ﾀﾁﾂﾃﾄﾅﾆﾇﾈﾉﾊﾋﾌﾍﾎﾏﾐﾑﾒﾓﾔﾕﾖﾗﾘﾙﾚﾛﾜﾝﾞﾟﾠﾡﾢﾣﾤﾥﾦﾧﾨﾩﾪﾫﾬﾭﾮﾯﾰﾱﾲﾳﾴﾵﾶﾷﾸﾹﾺﾻﾼﾽﾾ﾿￀￁ￂￃￄￅￆￇ￈￉ￊￋￌￍￎￏ￐￑ￒￓￔￕￖￗ￘￙ￚￛￜ￝￞￟￠￡￢￣￤￥￦￧￨￩￪￫￬￭￮￯￰￱￲￳￴￵￶￷￸￹￺￻￼�￾￿"
ThreeByteChars == Chars(ThreeByteText)

\* A character beyond the basic plane is held as two code units, a high
\* surrogate (U+D800 to U+DBFF) followed by a low one (U+DC00 to U+DFFF), and
\* a string of this module can hold it when both are in the upper half of
\* their block.  HighSurrogateText pairs each such high surrogate with the
\* low surrogate U+DC80, LowSurrogateText the high surrogate U+D880 with each
\* such low one, one block per line.
HighSurrogateText ==
    "𰂀𰒀𰢀𰲀𱂀𱒀𱢀𱲀𲂀𲒀𲢀𲲀𳂀𳒀𳢀𳲀𴂀𴒀𴢀𴲀𵂀𵒀𵢀𵲀𶂀𶒀𶢀𶲀𷂀𷒀𷢀𷲀𸂀𸒀𸢀𸲀𹂀𹒀𹢀𹲀𺂀𺒀𺢀𺲀𻂀𻒀𻢀𻲀𼂀𼒀𼢀𼲀𽂀𽒀𽢀𽲀𾂀𾒀𾢀𾲀𿂀𿒀𿢀𿲀񀂀񀒀񀢀񀲀񁂀񁒀񁢀񁲀񂂀񂒀񂢀񂲀񃂀񃒀񃢀񃲀񄂀񄒀񄢀񄲀񅂀񅒀񅢀񅲀񆂀񆒀񆢀񆲀񇂀񇒀񇢀񇲀񈂀񈒀񈢀񈲀񉂀񉒀񉢀񉲀񊂀񊒀񊢀񊲀񋂀񋒀񋢀񋲀񌂀񌒀񌢀񌲀񍂀񍒀񍢀񍲀񎂀񎒀񎢀񎲀񏂀񏒀񏢀񏲀"
    \o "񰂀񰒀񰢀񰲀񱂀񱒀񱢀񱲀񲂀񲒀񲢀񲲀񳂀񳒀񳢀񳲀񴂀񴒀񴢀񴲀񵂀񵒀񵢀񵲀񶂀񶒀񶢀񶲀񷂀񷒀񷢀񷲀񸂀񸒀񸢀񸲀񹂀񹒀񹢀񹲀񺂀񺒀񺢀񺲀񻂀񻒀񻢀񻲀񼂀񼒀񼢀񼲀񽂀񽒀񽢀񽲀񾂀񾒀񾢀񾲀񿂀񿒀񿢀񿲀򀂀򀒀򀢀򀲀򁂀򁒀򁢀򁲀򂂀򂒀򂢀򂲀򃂀򃒀򃢀򃲀򄂀򄒀򄢀򄲀򅂀򅒀򅢀򅲀򆂀򆒀򆢀򆲀򇂀򇒀򇢀򇲀򈂀򈒀򈢀򈲀򉂀򉒀򉢀򉲀򊂀򊒀򊢀򊲀򋂀򋒀򋢀򋲀򌂀򌒀򌢀򌲀򍂀򍒀򍢀򍲀򎂀򎒀򎢀򎲀򏂀򏒀򏢀򏲀"
    \o "򰂀򰒀򰢀򰲀򱂀򱒀򱢀򱲀򲂀򲒀򲢀򲲀򳂀򳒀򳢀򳲀򴂀򴒀򴢀򴲀򵂀򵒀򵢀򵲀򶂀򶒀򶢀򶲀򷂀򷒀򷢀򷲀򸂀򸒀򸢀򸲀򹂀򹒀򹢀򹲀򺂀򺒀򺢀򺲀򻂀򻒀򻢀򻲀򼂀򼒀򼢀򼲀򽂀򽒀򽢀򽲀򾂀򾒀򾢀򾲀򿂀򿒀򿢀򿲀󀂀󀒀󀢀󀲀󁂀󁒀󁢀󁲀󂂀󂒀󂢀󂲀󃂀󃒀󃢀󃲀󄂀󄒀󄢀󄲀󅂀󅒀󅢀󅲀󆂀󆒀󆢀󆲀󇂀󇒀󇢀󇲀󈂀󈒀󈢀󈲀󉂀󉒀󉢀󉲀󊂀󊒀󊢀󊲀󋂀󋒀󋢀󋲀󌂀󌒀󌢀󌲀󍂀󍒀󍢀󍲀󎂀󎒀󎢀󎲀󏂀󏒀󏢀󏲀"
    \o "󰂀󰒀󰢀󰲀󱂀󱒀󱢀󱲀󲂀󲒀󲢀󲲀󳂀󳒀󳢀󳲀󴂀󴒀󴢀󴲀󵂀󵒀󵢀󵲀󶂀󶒀󶢀󶲀󷂀󷒀󷢀󷲀󸂀󸒀󸢀󸲀󹂀󹒀󹢀󹲀󺂀󺒀󺢀󺲀󻂀󻒀󻢀󻲀󼂀󼒀󼢀󼲀󽂀󽒀󽢀󽲀󾂀󾒀󾢀󾲀󿂀󿒀󿢀󿲀􀂀􀒀􀢀􀲀􁂀􁒀􁢀􁲀􂂀􂒀􂢀􂲀􃂀􃒀􃢀􃲀􄂀􄒀􄢀􄲀􅂀􅒀􅢀􅲀􆂀􆒀􆢀􆲀􇂀􇒀􇢀􇲀􈂀􈒀􈢀􈲀􉂀􉒀􉢀􉲀􊂀􊒀􊢀􊲀􋂀􋒀􋢀􋲀􌂀􌒀􌢀􌲀􍂀􍒀􍢀􍲀􎂀􎒀􎢀􎲀􏂀􏒀􏢀􏲀"
HighSurrogates ==
    { SubSeq(HighSurrogateText, 2 * i - 1, 2 * i - 1) :
        i \in 1..(Len(HighSurrogateText) \div 2) }
LowSurrogateText ==
    "𰂀𰂁𰂂𰂃𰂄𰂅𰂆𰂇𰂈𰂉𰂊𰂋𰂌𰂍𰂎𰂏𰂐𰂑𰂒𰂓𰂔𰂕𰂖𰂗𰂘𰂙𰂚𰂛𰂜𰂝𰂞𰂟𰂠𰂡𰂢𰂣𰂤𰂥𰂦𰂧𰂨𰂩𰂪𰂫𰂬𰂭𰂮𰂯𰂰𰂱𰂲𰂳𰂴𰂵𰂶𰂷𰂸𰂹𰂺𰂻𰂼𰂽𰂾𰂿𰃀𰃁𰃂𰃃𰃄𰃅𰃆𰃇𰃈𰃉𰃊𰃋𰃌𰃍𰃎𰃏𰃐𰃑𰃒𰃓𰃔𰃕𰃖𰃗𰃘𰃙𰃚𰃛𰃜𰃝𰃞𰃟𰃠𰃡𰃢𰃣𰃤𰃥𰃦𰃧𰃨𰃩𰃪𰃫𰃬𰃭𰃮𰃯𰃰𰃱𰃲𰃳𰃴𰃵𰃶𰃷𰃸𰃹𰃺𰃻𰃼𰃽𰃾𰃿"
    \o "𰆀𰆁𰆂𰆃𰆄𰆅𰆆𰆇𰆈𰆉𰆊𰆋𰆌𰆍𰆎𰆏𰆐𰆑𰆒𰆓𰆔𰆕𰆖𰆗𰆘𰆙𰆚𰆛𰆜𰆝𰆞𰆟𰆠𰆡𰆢𰆣𰆤𰆥𰆦𰆧𰆨𰆩𰆪𰆫𰆬𰆭𰆮𰆯𰆰𰆱𰆲𰆳𰆴𰆵𰆶𰆷𰆸𰆹𰆺𰆻𰆼𰆽𰆾𰆿𰇀𰇁𰇂𰇃𰇄𰇅𰇆𰇇𰇈𰇉𰇊𰇋𰇌𰇍𰇎𰇏𰇐𰇑𰇒𰇓𰇔𰇕𰇖𰇗𰇘𰇙𰇚𰇛𰇜𰇝𰇞𰇟𰇠𰇡𰇢𰇣𰇤𰇥𰇦𰇧𰇨𰇩𰇪𰇫𰇬𰇭𰇮𰇯𰇰𰇱𰇲𰇳𰇴𰇵𰇶𰇷𰇸𰇹𰇺𰇻𰇼𰇽𰇾𰇿"
    \o "𰊀𰊁𰊂𰊃𰊄𰊅𰊆𰊇𰊈𰊉𰊊𰊋𰊌𰊍𰊎𰊏𰊐𰊑𰊒𰊓𰊔𰊕𰊖𰊗𰊘𰊙𰊚𰊛𰊜𰊝𰊞𰊟𰊠𰊡𰊢𰊣𰊤𰊥𰊦𰊧𰊨𰊩𰊪𰊫𰊬𰊭𰊮𰊯𰊰𰊱𰊲𰊳𰊴𰊵𰊶𰊷𰊸𰊹𰊺𰊻𰊼𰊽𰊾𰊿𰋀𰋁𰋂𰋃𰋄𰋅𰋆𰋇𰋈𰋉𰋊𰋋𰋌𰋍𰋎𰋏𰋐𰋑𰋒𰋓𰋔𰋕𰋖𰋗𰋘𰋙𰋚𰋛𰋜𰋝𰋞𰋟𰋠𰋡𰋢𰋣𰋤𰋥𰋦𰋧𰋨𰋩𰋪𰋫𰋬𰋭𰋮𰋯𰋰𰋱𰋲𰋳𰋴𰋵𰋶𰋷𰋸𰋹𰋺𰋻𰋼𰋽𰋾𰋿"
    \o "𰎀𰎁𰎂𰎃𰎄𰎅𰎆𰎇𰎈𰎉𰎊𰎋𰎌𰎍𰎎𰎏𰎐𰎑𰎒𰎓𰎔𰎕𰎖𰎗𰎘𰎙𰎚𰎛𰎜𰎝𰎞𰎟𰎠𰎡𰎢𰎣𰎤𰎥𰎦𰎧𰎨𰎩𰎪𰎫𰎬𰎭𰎮𰎯𰎰𰎱𰎲𰎳𰎴𰎵𰎶𰎷𰎸𰎹𰎺𰎻𰎼𰎽𰎾𰎿𰏀𰏁𰏂𰏃𰏄𰏅𰏆𰏇𰏈𰏉𰏊𰏋𰏌𰏍𰏎𰏏𰏐𰏑𰏒𰏓𰏔𰏕𰏖𰏗𰏘𰏙𰏚𰏛𰏜𰏝𰏞𰏟𰏠𰏡𰏢𰏣𰏤𰏥𰏦𰏧𰏨𰏩𰏪𰏫𰏬𰏭𰏮𰏯𰏰𰏱𰏲𰏳𰏴𰏵𰏶𰏷𰏸𰏹𰏺𰏻𰏼𰏽𰏾𰏿"
LowSurrogates ==
    { SubSeq(LowSurrogateText, 2 * i, 2 * i) :
        i \in 1..(Len(LowSurrogateText) \div 2) }

\* The two code units are one character beyond the basic plane.
IsPair(s) ==
    /\ Len(s) = 2
    /\ SubSeq(s, 1, 1) \in HighSurrogates
    /\ SubSeq(s, 2, 2) \in LowSurrogates

\* The bytes of one character in UTF-8: one up to U+007F, two from U+0080 to
\* U+07FF, three from U+0800 to U+FFFF, four beyond the basic plane.  A
\* surrogate without its partner is no character: it reaches a Go string as
\* U+FFFD, which takes three.
Utf8Width(ch) ==
    IF IsPair(ch) THEN 4
    ELSE IF ch \in TwoByteChars THEN 2
    ELSE IF ch \in ThreeByteChars \/ ch \in HighSurrogates \/ ch \in LowSurrogates THEN 3
    ELSE 1

\* Where a string of three or more code units is cut in two without parting
\* the code units of one character.
Cut(s) ==
    IF IsPair(SubSeq(s, Len(s) \div 2, Len(s) \div 2 + 1)) THEN Len(s) \div 2 + 1
    ELSE Len(s) \div 2

\* len(s): Go strings are byte sequences, and len counts bytes.
RECURSIVE ByteLen(_)
ByteLen(s) ==
    IF Len(s) = 0 THEN 0
    ELSE IF Len(s) = 1 \/ IsPair(s) THEN Utf8Width(s)
    ELSE ByteLen(SubSeq(s, 1, Cut(s))) + ByteLen(SubSeq(s, Cut(s) + 1, Len(s)))

\* The number of characters of a string: a pair of surrogates is one.
CharLen(s) ==
    Len(s) - Cardinality({ i \in 1..(Len(s) - 1) : IsPair(SubSeq(s, i, i + 1)) })

\* The length limit of createCommentRequest.Valid.
MaxContent == 1000

\* createCommentRequest.Valid: the fields with a problem.
CommentProblems(b) ==
    (IF Blank(b.Content) \/ ByteLen(b.Content) > MaxContent THEN {"content"} ELSE {})
    \cup (IF Blank(b.Author) THEN {"author"} ELSE {})

\* loginRequest.Valid.
LoginProblems(b) ==
    (IF Blank(b.Username) THEN {"username"} ELSE {})
    \cup (IF Blank(b.Password) THEN {"password"} ELSE {})

\* decodeValid: the error is non-nil when the body does not decode and also
\* when Valid reports problems.
DecodeValidErr(b, problems) == ~b.json \/ problems # {}

\* The mux of addRoutes: the handler registered for the path.
Route(path) ==
    IF path = LoginPath THEN "login"
    ELSE IF path = CommentsPath THEN "comments"
    ELSE IF path = ItemPath THEN "comment"
    ELSE IF path = HealthPath THEN "healthz"
    ELSE "notfound"

\* The result of a handler's step: the exchange, the map and the identifiers
\* issued.
Outcome(x, cs, iss) == [x |-> x, cs |-> cs, iss |-> iss]

\* loginResponse.ExpiresIn, in seconds.
ExpiresIn == 24 * 60 * 60

\* handleLogin at time t.
ValidCredentialsAnyPassword(b) == b.Username = "test"
ValidCredentials(b) == b.Username = "test" /\ b.Password = "test123"

LoginHandler(x, t) ==
    IF x.method # "POST" THEN TextReply(x, 405)
    ELSE IF DecodeValidErr(x.body, LoginProblems(x.body)) THEN TextReply(x, 400)
    ELSE IF LoginProblems(x.body) # {}
    THEN [JSONReply(x, 400) EXCEPT !.problems = LoginProblems(x.body)]
    ELSE IF ~ValidCredentials(x.body) THEN TextReply(x, 401)
    ELSE [JSONReply(x, 200) EXCEPT
            !.token = GenerateToken(LoginManager, x.body.Username, "user", t),
            !.expiresIn = ExpiresIn]

\* The handler calls a method of the store.
StoreCall(x) == [x EXCEPT !.ops = @ + 1]

\* handleComments: the outcomes of the handler on map cs at time t.
CommentsHandler(x, cs, iss, t) ==
    IF x.method = "GET" THEN
        IF CtxDone(x.gone) THEN { Outcome(TextReply(StoreCall(x), 500), cs, iss) }
        ELSE { Outcome([JSONReply(StoreCall(x), 200) EXCEPT !.list = l], cs, iss) :
                 l \in ListResults(cs) }
    ELSE IF x.method = "POST" THEN
        IF DecodeValidErr(x.body, CommentProblems(x.body))
        THEN { Outcome(TextReply(x, 400), cs, iss) }
        ELSE IF CommentProblems(x.body) # {}
        THEN { Outcome([JSONReply(x, 400) EXCEPT !.problems = CommentProblems(x.body)],
                       cs, iss) }
        ELSE IF CtxDone(x.gone) THEN { Outcome(TextReply(StoreCall(x), 500), cs, iss) }
        ELSE LET c == Comment(0, x.body.Content, x.body.Author, 0,
                              UserIDFromContext(x)) IN
             { Outcome([JSONReply(StoreCall(x), 201) EXCEPT
                           !.val = CreateRecord(c, id, t)],
                       MapStore(cs, id, CreateRecord(c, id, t)), iss \cup {id}) :
                 id \in GenerateID(iss) }
    ELSE { Outcome(TextReply(x, 405), cs, iss) }

\* The ownership test of the PUT and DELETE branches (lines 262, 315).
NotOwnerNever(existing, userID) == FALSE
NotOwner(existing, userID) == existing.UserID # userID

\* handleComment up to and including its first store call.  A PUT or DELETE
\* that passed the ownership test is left at stage "mutate".
ItemHandlerLookupFirst(x, cs) ==
    IF x.id = 0 THEN TextReply(x, 400)
    ELSE IF x.method = "GET" THEN
        IF CtxDone(x.gone) THEN TextReply(StoreCall(x), 500)
        ELSE IF GetOp(cs, x.id).err = ErrNotFound THEN TextReply(StoreCall(x), 404)
        ELSE [JSONReply(StoreCall(x), 200) EXCEPT !.val = GetOp(cs, x.id).val]
    ELSE IF x.method \in {"PUT", "DELETE"} THEN
        IF CtxDone(x.gone) THEN TextReply(StoreCall(x), 500)
        ELSE IF GetOp(cs, x.id).err = ErrNotFound THEN TextReply(StoreCall(x), 404)
        ELSE IF NotOwner(GetOp(cs, x.id).val, UserIDFromContext(x))
        THEN TextReply(StoreCall(x), 403)
        ELSE IF x.method = "PUT" /\ DecodeValidErr(x.body, CommentProblems(x.body))
        THEN TextReply(StoreCall(x), 400)
        ELSE [StoreCall(x) EXCEPT !.stage = "mutate"]
    ELSE TextReply(x, 405)
ItemHandler(x, cs) ==
    IF x.id = 0 THEN TextReply(x, 400)
    ELSE IF x.method = "GET" THEN
        IF CtxDone(x.gone) THEN TextReply(StoreCall(x), 500)
        ELSE IF GetOp(cs, x.id).err = ErrNotFound THEN TextReply(StoreCall(x), 404)
        ELSE [JSONReply(StoreCall(x), 200) EXCEPT !.val = GetOp(cs, x.id).val]
    ELSE IF x.method \in {"PUT", "DELETE"} THEN
        IF x.method = "PUT" /\ DecodeValidErr(x.body, CommentProblems(x.body))
        THEN TextReply(x, 400)
        ELSE IF x.method = "PUT" /\ CommentProblems(x.body) # {}
        THEN [JSONReply(x, 400) EXCEPT !.problems = CommentProblems(x.body)]
        ELSE IF CtxDone(x.gone) THEN TextReply(StoreCall(x), 500)
        ELSE IF GetOp(cs, x.id).err = ErrNotFound THEN TextReply(StoreCall(x), 404)
        ELSE IF NotOwner(GetOp(cs, x.id).val, UserIDFromContext(x))
        THEN TextReply(StoreCall(x), 403)
        ELSE [StoreCall(x) EXCEPT !.stage = "mutate"]
    ELSE TextReply(x, 405)

\* handleComment from its second store call on: Update (lines 267-296) or
\* Delete (lines 320-330).  Any error of the store is answered 500.
ItemMutate(x, cs, iss) ==
    IF x.method = "PUT" THEN
        LET c == Comment(0, x.body.Content, x.body.Author, 0, UserIDFromContext(x)) IN
        IF CtxDone(x.gone) THEN Outcome(TextReply(StoreCall(x), 500), cs, iss)
        ELSE IF UpdateOp(cs, x.id, c).err # ErrNil
        THEN Outcome(TextReply(StoreCall(x), 500), cs, iss)
        ELSE Outcome([JSONReply(StoreCall(x), 200) EXCEPT
                         !.val = UpdateOp(cs, x.id, c).val],
                     UpdateOp(cs, x.id, c).cs, iss)
    ELSE
        IF CtxDone(x.gone) THEN Outcome(TextReply(StoreCall(x), 500), cs, iss)
        ELSE IF DeleteOp(cs, x.id).err # ErrNil
        THEN Outcome(TextReply(StoreCall(x), 500), cs, iss)
        ELSE Outcome(BareReply(StoreCall(x), 204), DeleteOp(cs, x.id).cs, iss)

\* time.Time.UTC().Format(time.RFC3339) of instant t; the clock counts half
\* days from 1970-01-01T00:00:00Z.
FormatRFC3339(t) ==
    "1970-01-0" \o ToString(1 + t \div 2) \o "T"
    \o (IF t % 2 = 0 THEN "00" ELSE "12") \o ":00:00Z"

\* handleHealthz at time t.
HealthHandler(x, t) ==
    [JSONReply(x, 200) EXCEPT
        !.health = [status |-> "ok", time |-> FormatRFC3339(t)]]

\* The mux and the route handler, up to and including the handler's first
\* store call.
Dispatch(x, cs, iss, t) ==
    LET h == Route(x.path)
        y == [x EXCEPT !.handler = h] IN
    IF h = "login" THEN { Outcome(LoginHandler(y, t), cs, iss) }
    ELSE IF h = "comments" THEN CommentsHandler(y, cs, iss, t)
    ELSE IF h = "comment" THEN { Outcome(ItemHandler(y, cs), cs, iss) }
    ELSE IF h = "healthz" THEN { Outcome(HealthHandler(y, t), cs, iss) }
    ELSE { Outcome(TextReply(y, 404), cs, iss) }

\* The head of the chain NewServer builds: CORS outermost, then auth, which
\* reads the clock at t.  The request is answered here, or handed to the
\* logging middleware (which only logs) and the mux, at stage "mux".
Middleware(x, t) ==
    IF CORSLayer(x).stage = "done" THEN CORSLayer(x)
    ELSE AuthLayer(CORSLayer(x), t)

\* ------------------------------ SpecValid: createCommentRequest.Valid
\* s repeated n times.
RECURSIVE Repeat(_, _)
Repeat(s, n) ==
    IF n = 0 THEN ""
    ELSE IF n % 2 = 0 THEN Repeat(s, n \div 2) \o Repeat(s, n \div 2)
    ELSE s \o Repeat(s, n - 1)

\* The contents and authors of the requests validated: empty, white space
\* of every kind, short, and around the limit in characters of one, two,
\* three and four bytes.
ValidContents ==
    { "", " ", "\t ", "c1", " c1 ", "€",
      "\f", VT, NBSP, " " \o NEL \o "\r", OghamSpace, "c1" \o "\f",
      Repeat("ü", MaxContent \div 2), Repeat("ü", MaxContent \div 2 + 1),
      Repeat("日", MaxContent \div 3), Repeat("日", MaxContent \div 3 + 1),
      Repeat("𰂀", MaxContent \div 4), Repeat("𰂀", MaxContent \div 4 + 1),
      "c" \o Repeat("𰂀", MaxContent \div 4),
      Repeat("x", MaxContent - 1), Repeat("x", MaxContent),
      Repeat("x", MaxContent + 1), Repeat(" ", MaxContent + 1),
      Repeat("é", MaxContent \div 2), Repeat("é", MaxContent \div 2 + 1),
      Repeat("é", MaxContent) }
ValidAuthors ==
    { "", " ", "\n", "a1", Repeat("a", MaxContent + 1),
      "\f", NBSP \o VT, "a1" \o NBSP }

\* A call of Valid: the request and the problems returned.
ValidCall(op, req, problems) == [op |-> op, req |-> req, problems |-> problems]

\* A decoded createCommentRequest is at hand.
ValidInit ==
    /\ StoreInit
    /\ last \in { ValidCall("none", Body(TRUE, c, a, "", ""), {}) :
                    c \in ValidContents, a \in ValidAuthors }
    /\ ConcIdle
    /\ HTTPIdle

\* req.Valid(ctx).
Valid ==
    /\ last.op = "none"
    /\ last' = ValidCall("Valid", last.req, CommentProblems(last.req))
    /\ UNCHANGED <<comments, issued, now, mu, procs, stable, reqs>>

NextValid == Valid

SpecValid == ValidInit /\ [][NextValid]_vars

\* ---------------------------------------------------- the requests sent
Methods == {"GET", "POST", "PUT", "DELETE", "OPTIONS", "PATCH"}

\* Tokens a client can hold: issued by the service for a user at some time,
\* signed with another key, unsigned (alg none), or no token at all.
\* The times of issue: from before the service's clock started, so that some
\* tokens expire within it.
IssueTimes == (1 - TokenExpiry)..MaxTime
IssuedTokens ==
    { GenerateToken(NewJWTManager(Secret, TokenExpiry), u, "user", t0) :
        u \in Users, t0 \in IssueTimes }
ForgedToken == GenerateToken(NewJWTManager("other-secret", TokenExpiry), "A", "user", 0)
UnsignedToken == Token(TRUE, "none", "", "A", "user", 0, 0, TokenExpiry)
Tokens == IssuedTokens \cup {ForgedToken, UnsignedToken, NoToken}

Headers ==
    { NoHeader, Header("Basic ", NoToken),
      Header("bearer ", GenerateToken(NewJWTManager(Secret, TokenExpiry), "A", "user", 0)) }
    \cup { Header("Bearer ", tok) : tok \in Tokens }

CommentBodies ==
    { Body(TRUE, "c1", "a1", "", ""), Body(TRUE, "c2", "a2", "", ""),
      Body(TRUE, "", "a1", "", "") }
LoginBodies ==
    { Body(TRUE, "", "", "test", "test123"), Body(TRUE, "", "", "test", "wrong"),
      Body(TRUE, "", "", "admin", "test123"), Body(TRUE, "", "", "", "test123"),
      Body(TRUE, "", "", "test", "\f"), Body(TRUE, "", "", " ", "") }

\* The bodies worth sending: a handler reads the body only on these routes.
BodiesFor(method, path) ==
    IF method = "POST" /\ path = LoginPath THEN LoginBodies \cup {NoBody}
    ELSE IF (method = "POST" /\ path = CommentsPath) \/ (method = "PUT" /\ path = ItemPath)
    THEN CommentBodies \cup {NoBody}
    ELSE {NoBody}

\* The targets: a path and, after ItemPath, an identifier (0: none).
Targets ==
    { <<HealthPath, 0>>, <<LoginPath, 0>>, <<CommentsPath, 0>>, <<OtherPath, 0>> }
    \cup { <<ItemPath, id>> : id \in 0..MaxIDs }

\* A cancelled request context matters only where a store method is called:
\* in the branches of handleComments and handleComment that call the store,
\* for a request that may pass the gate.
GoneFor(method, path, h) ==
    IF /\ \/ (path = CommentsPath /\ method \in {"GET", "POST"})
          \/ (path = ItemPath /\ method \in {"GET", "PUT", "DELETE"})
       /\ HasBearer(h) /\ h.token \in IssuedTokens
    THEN BOOLEAN ELSE {FALSE}

\* Every request a client may send.
AllRequests ==
    UNION { { Exchange("cors", m, tg[1], tg[2], h, b, g) :
                b \in BodiesFor(m, tg[1]), g \in GoneFor(m, tg[1], h) } :
            m \in Methods, tg \in Targets, h \in Headers }

\* --------------------------------- SpecGate: one request after another
GateSlots == {1}

GateInit ==
    /\ StoreInit
    /\ last = NoCall
    /\ ConcIdle
    /\ reqs = [r \in GateSlots |-> Idle]

\* A request arrives.
Arrive(r) ==
    /\ reqs[r].stage = "idle"
    /\ \E x \in AllRequests : reqs' = [reqs EXCEPT ![r] = x]
    /\ UNCHANGED <<comments, issued, now, last, mu, procs, stable>>

\* The server takes the request through the CORS and auth middleware, which
\* answer it or hand it on.
ServeHTTP(r) ==
    /\ reqs[r].stage = "cors"
    /\ reqs' = [reqs EXCEPT ![r] = Middleware(reqs[r], now)]
    /\ UNCHANGED <<comments, issued, now, last, mu, procs, stable>>

\* The mux hands the request to its handler, which runs up to and including
\* its first store call, at the time it is then: between the gate and here
\* the server logs, reads the body and waits for the store's lock.  Every
\* request but a PUT or DELETE that passed the ownership test is answered
\* here; those go on with Mutate, after the store's lock was released
\* (comments.go lines 70-71).
Handle(r) ==
    /\ reqs[r].stage = "mux"
    /\ \E o \in Dispatch(reqs[r], comments, issued, now) :
         /\ reqs' = [reqs EXCEPT ![r] = o.x]
         /\ comments' = o.cs
         /\ issued' = o.iss
    /\ UNCHANGED <<now, last, mu, procs, stable>>

\* The client has read the response.
Close(r) ==
    /\ reqs[r].stage = "done"
    /\ reqs' = [reqs EXCEPT ![r] = Idle]
    /\ UNCHANGED <<comments, issued, now, last, mu, procs, stable>>

\* The handler of a PUT or DELETE makes its second store call and answers.
Mutate(r) ==
    /\ reqs[r].stage = "mutate"
    /\ reqs' = [reqs EXCEPT ![r] = ItemMutate(reqs[r], comments, issued).x]
    /\ comments' = ItemMutate(reqs[r], comments, issued).cs
    /\ UNCHANGED <<issued, now, last, mu, procs, stable>>

\* The client of a request in progress goes away: its context is cancelled.
Disconnect(r) ==
    /\ reqs[r].stage = "mutate"
    /\ ~reqs[r].gone
    /\ reqs' = [reqs EXCEPT ![r].gone = TRUE]
    /\ UNCHANGED <<comments, issued, now, last, mu, procs, stable>>

NextGate ==
    \/ Tick
    \/ \E r \in GateSlots : Arrive(r)
    \/ \E r \in GateSlots : ServeHTTP(r)
    \/ \E r \in GateSlots : Handle(r)
    \/ \E r \in GateSlots : Mutate(r)
    \/ \E r \in GateSlots : Disconnect(r)
    \/ \E r \in GateSlots : Close(r)

SpecGate == GateInit /\ [][NextGate]_vars

\* ------------------------------------ SpecLogin: a client that logs in
\* What the client keeps of a login answered 200: the token and expires_in.
Session(token, expiresIn) == [token |-> token, expiresIn |-> expiresIn]
NoSession == Session(NoToken, 0)

\* The requests the client makes with the token it holds.
SessionRequests(tok) ==
    UNION { { Exchange("cors", m, tg[1], tg[2], Header("Bearer ", tok), b, FALSE) :
                b \in IF BodiesFor(m, tg[1]) = {NoBody} THEN {NoBody}
                      ELSE CommentBodies } :
            m \in {"GET", "POST", "PUT", "DELETE"},
            tg \in {<<CommentsPath, 0>>, <<ItemPath, 1>>, <<OtherPath, 0>>} }

LoginInit ==
    /\ StoreInit
    /\ last = NoSession
    /\ ConcIdle
    /\ reqs = [r \in GateSlots |-> Idle]

\* The client posts credentials to /api/v1/login, without Authorization header.
SendLogin(r) ==
    /\ reqs[r].stage = "idle"
    /\ \E b \in LoginBodies :
          reqs' = [reqs EXCEPT ![r] = Exchange("cors", "POST", LoginPath, 0,
                                               NoHeader, b, FALSE)]
    /\ UNCHANGED <<comments, issued, now, last, mu, procs, stable>>

\* The client sends a request with the token of its last successful login.
SendWithToken(r) ==
    /\ reqs[r].stage = "idle"
    /\ last.token.parses
    /\ \E x \in SessionRequests(last.token) : reqs' = [reqs EXCEPT ![r] = x]
    /\ UNCHANGED <<comments, issued, now, last, mu, procs, stable>>

\* The client reads the response, and keeps the token of a login answered 200.
Receive(r) ==
    /\ reqs[r].stage = "done"
    /\ reqs' = [reqs EXCEPT ![r] = Idle]
    /\ last' = IF reqs[r].path = LoginPath /\ reqs[r].status = 200
               THEN Session(reqs[r].token, reqs[r].expiresIn)
               ELSE last
    /\ UNCHANGED <<comments, issued, now, mu, procs, stable>>

NextLogin ==
    \/ Tick
    \/ \E r \in GateSlots : SendLogin(r)
    \/ \E r \in GateSlots : SendWithToken(r)
    \/ \E r \in GateSlots : ServeHTTP(r)
    \/ \E r \in GateSlots : Handle(r)
    \/ \E r \in GateSlots : Mutate(r)
    \/ \E r \in GateSlots : Disconnect(r)
    \/ \E r \in GateSlots : Receive(r)

SpecLogin == LoginInit /\ [][NextLogin]_vars

\* ------------------------------------------ SpecHTTP: concurrent requests
Reqs == {1, 2}

\* The requests of the users: each holds a token issued to it at the time of
\* the request, and reads, creates, updates and deletes comments; the client
\* may be gone before the handler calls the store.
UserRequests(t) ==
    UNION { { Exchange("cors", m, tg[1], tg[2],
                       Header("Bearer ", GenerateToken(NewJWTManager(Secret, TokenExpiry),
                                                       u, "user", t)), b, g) :
                b \in IF BodiesFor(m, tg[1]) = {NoBody} THEN {NoBody}
                      ELSE CommentBodies,
                g \in BOOLEAN } :
            m \in {"GET", "POST", "PUT", "DELETE"},
            tg \in {<<CommentsPath, 0>>, <<ItemPath, 1>>}, u \in Users }

HTTPInit ==
    /\ StoreInit
    /\ last = NoCall
    /\ ConcIdle
    /\ reqs = [r \in Reqs |-> Idle]

\* A request arrives and goes through the CORS and auth middleware.
Serve(r) ==
    /\ reqs[r].stage = "idle"
    /\ \E x \in UserRequests(now) : reqs' = [reqs EXCEPT ![r] = Middleware(x, now)]
    /\ UNCHANGED <<comments, issued, now, last, mu, procs, stable>>

NextHTTP ==
    \/ Tick
    \/ \E r \in Reqs : Serve(r)
    \/ \E r \in Reqs : Handle(r)
    \/ \E r \in Reqs : Mutate(r)
    \/ \E r \in Reqs : Disconnect(r)
    \/ \E r \in Reqs : Close(r)

SpecHTTP == HTTPInit /\ [][NextHTTP]_vars

\* -------------------------------------------------- SpecRun: server.Run
\* The environment: the variables that are set, each to the empty string or
\* to a value.
EnvNames == {"DATABASE_URL", "JWT_SECRET", "ENVIRONMENT"}
Envs == UNION { [S -> {"", "test", "production"}] : S \in SUBSET EnvNames }

\* getenv(key): the empty string for a variable that is not set.
Getenv(env, key) == IF key \in DOMAIN env THEN env[key] ELSE ""

\* A config.Config value.
Config(databaseURL, jwtSecret, environment) ==
    [DatabaseURL |-> databaseURL, JWTSecret |-> jwtSecret,
     Environment |-> environment]

\* What Load returns: isNil tells that the *Config is nil.
Loaded(isNil, cfg, err) == [isNil |-> isNil, cfg |-> cfg, err |-> err]
NilConfig == Config("", "", "")

\* config.Load.
LoadUnchecked(env) ==
    Loaded(FALSE,
           Config(Getenv(env, "DATABASE_URL"), Getenv(env, "JWT_SECRET"),
                  Getenv(env, "ENVIRONMENT")),
           ErrNil)
Load(env) ==
    LET cfg == Config(Getenv(env, "DATABASE_URL"), Getenv(env, "JWT_SECRET"),
                      Getenv(env, "ENVIRONMENT")) IN
    IF cfg.JWTSecret = "" THEN Loaded(TRUE, NilConfig, "JWT_SECRET is required")
    ELSE Loaded(FALSE,
                [cfg EXCEPT !.Environment = IF @ = "" THEN "development" ELSE @,
                            !.DatabaseURL = IF @ = "" THEN "memory://" ELSE @],
                ErrNil)

\* A channel of errors: the values buffered in it, and whether it is closed.
Chan(buf, closed) == [buf |-> buf, closed |-> closed]

\* make(chan error, 1), line 65.
ErrChanCap == 1

\* A send proceeds while the buffer has room; a receive proceeds when a value
\* is buffered or the channel is closed, and then yields the zero value.
CanSend(ch) == Len(ch.buf) < ErrChanCap
CanRecv(ch) == ch.buf # <<>> \/ ch.closed
Recv(ch) == IF ch.buf # <<>> THEN Head(ch.buf) ELSE ErrNil
AfterRecv(ch) == IF ch.buf # <<>> THEN [ch EXCEPT !.buf = Tail(@)] ELSE ch

\* server.Run under way.
\*   pc        where Run is: "start", "loaded", "store", "handler",
\*             "listening", "waitReady" (the select of line 80), "waitDone"
\*             (the select of line 90), "shutdown" (in httpServer.Shutdown),
\*             or "returned"
\*   env       the environment getenv reads
\*   loaded    what config.Load returned
\*   store     storage.NewCommentStore has been called
\*   listener  net.Listen has opened the listener
\*   err       the error Run returned
\*   via       the return statement Run left by
\*   ctxDone   Run's context is cancelled
\*   ready     the channel ready is closed
\*   errChan   the channel errChan
\*   serve     where the serving goroutine is: "none" (not started), "start",
\*             "serving" (in httpServer.Serve), "send" (at line 74), "close"
\*             (at line 76), or "exited"
\*   stopped   httpServer.Shutdown has been called
Running(pc, env, loaded, store, listener, err) ==
    [pc |-> pc, env |-> env, loaded |-> loaded, store |-> store,
     listener |-> listener, err |-> err, via |-> "", ctxDone |-> FALSE,
     ready |-> FALSE, errChan |-> Chan(<<>>, FALSE), serve |-> "none",
     stopped |-> FALSE]

\* Run returns err by the return statement via.
Returned(r, via, err) == [r EXCEPT !.pc = "returned", !.via = via, !.err = err]

\* The errors of the serving phase.
ServeError == "error serving: accept failed"
ShutdownError == "error shutting down server: context deadline exceeded"

RunInit ==
    /\ StoreInit
    /\ last \in { Running("start", env, Loaded(TRUE, NilConfig, ErrNil), FALSE, FALSE,
                           ErrNil) : env \in Envs }
    /\ ConcIdle
    /\ HTTPIdle

\* Lines 34-37: load the configuration, return its error wrapped.
RunLoad ==
    /\ last.pc = "start"
    /\ last' = IF Load(last.env).err # ErrNil
               THEN [Returned(last, "config", "loading config: " \o Load(last.env).err)
                        EXCEPT !.loaded = Load(last.env)]
               ELSE [last EXCEPT !.pc = "loaded", !.loaded = Load(last.env)]
    /\ UNCHANGED <<comments, issued, now, mu, procs, stable, reqs>>

\* Line 40.
RunNewCommentStore ==
    /\ last.pc = "loaded"
    /\ last' = [last EXCEPT !.pc = "store", !.store = TRUE]
    /\ UNCHANGED <<comments, issued, now, mu, procs, stable, reqs>>

\* Lines 43-53.
RunNewServer ==
    /\ last.pc = "store"
    /\ last' = [last EXCEPT !.pc = "handler"]
    /\ UNCHANGED <<comments, issued, now, mu, procs, stable, reqs>>

\* Lines 59-62: net.Listen opens the listener or fails.
RunListen ==
    /\ last.pc = "handler"
    /\ \/ last' = [last EXCEPT !.pc = "listening", !.listener = TRUE]
       \/ last' = Returned(last, "listen", "failed to create listener")
    /\ UNCHANGED <<comments, issued, now, mu, procs, stable, reqs>>

\* Lines 65-77: make errChan and start the serving goroutine.
RunGo ==
    /\ last.pc = "listening"
    /\ last' = [last EXCEPT !.pc = "waitReady", !.serve = "start"]
    /\ UNCHANGED <<comments, issued, now, mu, procs, stable, reqs>>

\* The select of lines 80-87, case <-ready.
RunReady ==
    /\ last.pc = "waitReady"
    /\ last.ready
    /\ last' = [last EXCEPT !.pc = "waitDone"]
    /\ UNCHANGED <<comments, issued, now, mu, procs, stable, reqs>>

\* The select of lines 80-87, case err := <-errChan.
RunNotReady ==
    /\ last.pc = "waitReady"
    /\ CanRecv(last.errChan)
    /\ last' = [Returned(last, "notready",
                         "server failed before becoming ready: " \o Recv(last.errChan))
                   EXCEPT !.errChan = AfterRecv(last.errChan)]
    /\ UNCHANGED <<comments, issued, now, mu, procs, stable, reqs>>

\* The select of lines 80-87, case <-time.After(5 * time.Second).
RunTimeout ==
    /\ last.pc = "waitReady"
    /\ last' = Returned(last, "timeout", "timeout waiting for server to become ready")
    /\ UNCHANGED <<comments, issued, now, mu, procs, stable, reqs>>

\* The select of lines 90-102, case err := <-errChan: return err.
RunServeError ==
    /\ last.pc = "waitDone"
    /\ CanRecv(last.errChan)
    /\ last' = [Returned(last, "serve", Recv(last.errChan))
                   EXCEPT !.errChan = AfterRecv(last.errChan)]
    /\ UNCHANGED <<comments, issued, now, mu, procs, stable, reqs>>

\* The select of lines 90-102, case <-ctx.Done(): call httpServer.Shutdown.
RunCtxDone ==
    /\ last.pc = "waitDone"
    /\ last.ctxDone
    /\ last' = [last EXCEPT !.pc = "shutdown", !.stopped = TRUE]
    /\ UNCHANGED <<comments, issued, now, mu, procs, stable, reqs>>

\* Lines 98-101: Shutdown returns nil, or its context's error when the
\* connections have not gone idle within ten seconds.
RunShutdown ==
    /\ last.pc = "shutdown"
    /\ \/ last' = Returned(last, "shutdown", ErrNil)
       \/ last' = Returned(last, "shutdown", ShutdownError)
    /\ UNCHANGED <<comments, issued, now, mu, procs, stable, reqs>>

\* The caller of Run cancels the context.
Cancel ==
    /\ ~last.ctxDone
    /\ last' = [last EXCEPT !.ctxDone = TRUE]
    /\ UNCHANGED <<comments, issued, now, mu, procs, stable, reqs>>

\* The serving goroutine, lines 67-70: log, close(ready), call Serve.
ServeStart ==
    /\ last.serve = "start"
    /\ last' = [last EXCEPT !.serve = "serving", !.ready = TRUE]
    /\ UNCHANGED <<comments, issued, now, mu, procs, stable, reqs>>

\* Line 73: Serve returns an error other than http.ErrServerClosed.
ServeFail ==
    /\ last.serve = "serving"
    /\ ~last.stopped
    /\ last' = [last EXCEPT !.serve = "send"]
    /\ UNCHANGED <<comments, issued, now, mu, procs, stable, reqs>>

\* Line 73: Serve returns http.ErrServerClosed once Shutdown has been called.
ServeClosed ==
    /\ last.serve = "serving"
    /\ last.stopped
    /\ last' = [last EXCEPT !.serve = "close"]
    /\ UNCHANGED <<comments, issued, now, mu, procs, stable, reqs>>

\* Line 74: errChan <- the error.
ServeSend ==
    /\ last.serve = "send"
    /\ CanSend(last.errChan)
    /\ last' = [last EXCEPT !.serve = "close",
                            !.errChan.buf = Append(@, ServeError)]
    /\ UNCHANGED <<comments, issued, now, mu, procs, stable, reqs>>

\* Line 76: close(errChan); the goroutine ends.
ServeClose ==
    /\ last.serve = "close"
    /\ last' = [last EXCEPT !.serve = "exited", !.errChan.closed = TRUE]
    /\ UNCHANGED <<comments, issued, now, mu, procs, stable, reqs>>

NextRun ==
    \/ RunLoad
    \/ RunNewCommentStore
    \/ RunNewServer
    \/ RunListen
    \/ RunGo
    \/ RunReady
    \/ RunNotReady
    \/ RunTimeout
    \/ RunServeError
    \/ RunCtxDone
    \/ RunShutdown
    \/ Cancel
    \/ ServeStart
    \/ ServeFail
    \/ ServeClosed
    \/ ServeSend
    \/ ServeClose

SpecRun == RunInit /\ [][NextRun]_vars

\* ------------------------- SpecServe: server.Run under fair scheduling
\* The steps of Run and of the serving goroutine that the scheduler makes
\* happen; the timer of line 85, the cancellation of the context and a
\* failure of Serve are events that may never come.
RunSteps ==
    \/ RunLoad
    \/ RunNewCommentStore
    \/ RunNewServer
    \/ RunListen
    \/ RunGo
    \/ RunReady
    \/ RunNotReady
    \/ RunServeError
    \/ RunCtxDone
    \/ RunShutdown

ServeSteps ==
    \/ ServeStart
    \/ ServeClosed
    \/ ServeSend
    \/ ServeClose

SpecServe ==
    RunInit /\ [][NextRun]_vars /\ WF_vars(RunSteps) /\ WF_vars(ServeSteps)

\* ------------------------------------------------------------- claims
\* The step is a store call of Spec.
Called == last'.turn # last.turn

\* The identity-bearing fields of a record.
Identity(c) == <<c.ID, c.CreatedAt, c.UserID>>

\* The goroutines whose call was a live Create that has returned.
CreatesReturned ==
    {p \in Procs : /\ procs[p].pc = "done"
                   /\ procs[p].call.op = "Create"
                   /\ ~procs[p].call.cancelled}

\* Every goroutine made a live Create, all have returned, and the store was
\* empty when they started (every identifier issued went to one of them).
AllCreated ==
    /\ CreatesReturned = Procs
    /\ issued \subseteq {procs[p].call.val.ID : p \in Procs}

\* C1: N goroutines call Create concurrently on an empty store with live
\* contexts: every call returns a record, the N identifiers returned are
\* pairwise distinct, and once all have returned Count() is N.
C1_ConcurrentCreates ==
    AllCreated =>
        /\ \A p \in Procs : /\ procs[p].call.err = ErrNil
                            /\ procs[p].call.val.ID \in IDs
        /\ \A p, q \in Procs :
              p # q => procs[p].call.val.ID # procs[q].call.val.ID
        /\ CountOf(comments) = Cardinality(Procs)

C1_Witness ==
    /\ AllCreated
    /\ CountOf(comments) = Cardinality(Procs)

\* The step is a step of the request in slot r, which is under way after it.
StepOf(r) == reqs'[r] # reqs[r] /\ reqs'[r].stage # "idle"

\* The request is a PUT or DELETE of one comment.
IsMutation(x) == x.path = ItemPath /\ x.method \in {"PUT", "DELETE"}

\* The request has what its method needs: a PUT brings a body with content
\* and author.
WellFormed(x) ==
    x.method = "PUT" =>
        /\ x.body.json
        /\ ~Blank(x.body.Content)
        /\ CharLen(x.body.Content) <= 1000
        /\ ~Blank(x.body.Author)

\* The step is the lookup of slot r's PUT or DELETE, made by a subject other
\* than the owner of the record, which is in the store.
LooksUpAnothers(r) ==
    /\ reqs[r].stage = "mux"
    /\ StepOf(r)
    /\ IsMutation(reqs'[r])
    /\ reqs'[r].id \in DOMAIN comments
    /\ comments[reqs'[r].id].UserID # reqs'[r].userID

\* C2 as stated: a PUT or DELETE by an authenticated subject on a record that
\* another subject owns is answered 403 and does not change or remove it.
C2_AlwaysForbidden ==
    [][ \A r \in Reqs :
          LooksUpAnothers(r) =>
             /\ reqs'[r].stage = "done"
             /\ reqs'[r].status = 403
             /\ comments' = comments ]_vars

\* C2: a PUT or DELETE by an authenticated subject on a record another subject
\* owns never changes or removes that record, at any step of the request and
\* whatever other requests do in between; the handler that finds the record
\* answers 403 at once, unless the PUT's body is invalid (400, before the
\* lookup) or the request's context is already cancelled (500).
C2_NonOwnerForbidden ==
    [][ \A r \in Reqs :
          /\ (StepOf(r) /\ IsMutation(reqs'[r])) =>
                \A id \in DOMAIN comments :
                   comments[id].UserID # reqs'[r].userID
                   => (id \in DOMAIN comments' /\ comments'[id] = comments[id])
          /\ LooksUpAnothers(r) =>
                /\ reqs'[r].stage = "done"
                /\ reqs'[r].status =
                      IF ~WellFormed(reqs'[r]) THEN 400
                      ELSE IF reqs'[r].gone THEN 500
                      ELSE 403 ]_vars

\* A subject's PUT on another's record was answered 403 while the owner's own
\* request on the same record is between its lookup and its write.
C2_Witness ==
    \E r, q \in Reqs :
        /\ reqs[r].stage = "done"
        /\ reqs[r].method = "PUT"
        /\ reqs[r].status = 403
        /\ reqs[r].id \in DOMAIN comments
        /\ comments[reqs[r].id].UserID # reqs[r].userID
        /\ reqs[q].stage = "mutate"
        /\ reqs[q].id = reqs[r].id
        /\ reqs[q].userID = comments[reqs[r].id].UserID

\* The request carries "Bearer <token>" with a token that validates at time t:
\* signed with the configured secret by an HMAC method, and t within its
\* validity.
ValidBearer(x, t) ==
    /\ x.auth.prefix = "Bearer "
    /\ x.auth.token.parses
    /\ x.auth.token.alg \in {"HS256", "HS384", "HS512"}
    /\ x.auth.token.sig = Secret
    /\ x.auth.token.nbf <= t
    /\ t < x.auth.token.exp

\* The request is to a path that is not public and carries no valid token.
Unauthenticated(x, t) ==
    /\ x.path \notin {"/healthz", "/api/v1/login"}
    /\ ~ValidBearer(x, t)

\* The step takes the request of slot r through the CORS and auth middleware:
\* it is answered there or handed on to the mux.
Gated(r) == reqs[r].stage = "cors" /\ reqs'[r].stage \in {"done", "mux"}

\* The step is the handler's of the request of slot r, which passed the
\* middleware: it is answered, or its PUT or DELETE has passed the ownership
\* test and goes on to the store.
Handled(r) == reqs[r].stage = "mux" /\ reqs'[r].stage \in {"done", "mutate"}

\* C3 as stated: every request of any method to a path that is not public,
\* without a valid Bearer token, is answered 401 and reaches no handler.
C3_AnyMethod401 ==
    [][ \A r \in GateSlots :
          (Gated(r) /\ Unauthenticated(reqs[r], now)) =>
             /\ reqs'[r].stage = "done"
             /\ reqs'[r].status = 401
             /\ reqs'[r].handler = "none" ]_vars

\* C3: every request to a path that is not public, without a valid Bearer
\* token, reaches no handler; it is answered 401 unless its method is OPTIONS,
\* which the CORS middleware answers 200 before the gate.
C3_Unauthenticated401 ==
    [][ \A r \in GateSlots :
          (Gated(r) /\ Unauthenticated(reqs[r], now)) =>
             /\ reqs'[r].stage = "done"
             /\ reqs'[r].handler = "none"
             /\ reqs'[r].status = IF reqs[r].method = "OPTIONS" THEN 200 ELSE 401 ]_vars

\* The owner of a stored record is refused with a token that has expired.
C3_Witness ==
    \E r \in GateSlots :
        /\ reqs[r].stage = "done"
        /\ reqs[r].status = 401
        /\ reqs[r].method = "DELETE"
        /\ reqs[r].path = ItemPath
        /\ reqs[r].id \in DOMAIN comments
        /\ reqs[r].auth.prefix = "Bearer "
        /\ reqs[r].auth.token \in IssuedTokens
        /\ reqs[r].auth.token.UserID = comments[reqs[r].id].UserID
        /\ reqs[r].handler = "none"

\* C4: a request the gate rejects is answered by the gate, calls no store
\* method and leaves the map of comments and the identifiers handed out
\* exactly as they were, so the count is unchanged.
C4_RejectedTouchesNothing ==
    [][ \A r \in GateSlots :
          ( /\ Gated(r)
            /\ Unauthenticated(reqs[r], now)
            /\ reqs[r].method # "OPTIONS" ) =>
             /\ reqs'[r].stage = "done"
             /\ reqs'[r].ops = 0
             /\ comments' = comments
             /\ issued' = issued
             /\ CountOf(comments') = CountOf(comments) ]_vars

\* A POST of a valid comment without Authorization header was answered 401,
\* with a store that holds a record.
C4_Witness ==
    \E r \in GateSlots :
        /\ reqs[r].stage = "done"
        /\ reqs[r].method = "POST"
        /\ reqs[r].path = CommentsPath
        /\ reqs[r].auth = NoHeader
        /\ reqs[r].body.json
        /\ CommentProblems(reqs[r].body) = {}
        /\ reqs[r].status = 401
        /\ CountOf(comments) = 1

\* The step is a ValidateToken call of SpecToken.
Validated == last'.turn # last.turn /\ last'.op = "ValidateToken"

\* C11: a token GenerateToken(subject, role) made, handed unaltered to
\* ValidateToken of a manager with the same secret at a time from the token's
\* issue up to, not including, its expiry, validates and returns claims with
\* that subject and that role.
C11_RoundTrip ==
    [][ ( /\ Validated
          /\ ~last.altered
          /\ last'.vm.secretKey = last.m.secretKey
          /\ last.t <= now
          /\ now < last.t + last.m.expiry )
        => ( /\ last'.res.err = ErrNil
             /\ last'.res.claims
             /\ last'.res.UserID = last.userID
             /\ last'.res.Role = last.role ) ]_vars

\* A token made for B as admin by a manager with a window of two units was
\* validated, a unit after its issue, by another manager with the same secret.
C11_Witness ==
    /\ last.op = "ValidateToken"
    /\ ~last.altered
    /\ last.vm # last.m
    /\ last.vm.secretKey = last.m.secretKey
    /\ now = last.t + 1
    /\ last.res.err = ErrNil
    /\ last.res.UserID = "B"
    /\ last.res.Role = "admin"

\* The step answers slot r's request, which is not OPTIONS, is to a path that
\* is not public and carries "Bearer " and a well-formed HMAC token.
GateValidates(r) ==
    /\ Gated(r)
    /\ reqs[r].method # "OPTIONS"
    /\ reqs[r].path \notin {"/healthz", "/api/v1/login"}
    /\ reqs[r].auth.prefix = "Bearer "
    /\ reqs[r].auth.token.parses
    /\ reqs[r].auth.token.alg \in {"HS256", "HS384", "HS512"}

\* C12: for a token whose expiry has passed, and for a token signed with
\* another secret than the manager's, ValidateToken returns an error (the
\* expiry error, the signature error) and no claims, and the gate answers the
\* request that carries it 401, attaching no identity and calling no handler.
C12_ExpiredOrForged401 ==
    [][ \A r \in GateSlots :
          LET tok == reqs[r].auth.token
              v == ValidateToken(GateManager, tok, now) IN
          ( /\ GateValidates(r)
            /\ (tok.sig # Secret \/ tok.exp <= now) )
          => ( /\ v.err = IF tok.sig # Secret THEN "signature is invalid"
                          ELSE "token is expired"
               /\ ~v.claims
               /\ reqs'[r].stage = "done"
               /\ reqs'[r].status = 401
               /\ reqs'[r].userID = ""
               /\ reqs'[r].role = ""
               /\ reqs'[r].handler = "none" ) ]_vars

\* A token signed with another secret, its window still open, was refused.
C12_Witness ==
    \E r \in GateSlots :
        /\ reqs[r].stage = "done"
        /\ reqs[r].method = "GET"
        /\ reqs[r].path = CommentsPath
        /\ reqs[r].auth.prefix = "Bearer "
        /\ reqs[r].auth.token.alg = "HS256"
        /\ reqs[r].auth.token.sig = "other-secret"
        /\ now < reqs[r].auth.token.exp
        /\ reqs[r].status = 401
        /\ CountOf(comments) > 0

\* C13: ValidateToken accepts a token only if its signature is by the
\* manager's secret, its algorithm of the HMAC family and the time t within
\* not-before <= t < expiry; a token generated at t0 by a manager with window
\* W is accepted at t0 and rejected at t0 + W.
C13_AcceptsOnlyValid ==
    [][ Validated =>
          /\ last'.res.err = ErrNil
             => ( /\ last.token.parses
                  /\ last.token.sig = last'.vm.secretKey
                  /\ last.token.alg \in {"HS256", "HS384", "HS512"}
                  /\ last.token.nbf <= now
                  /\ now < last.token.exp )
          /\ (~last.altered /\ last'.vm.secretKey = last.m.secretKey /\ now = last.t)
             => last'.res.err = ErrNil
          /\ (~last.altered /\ now = last.t + last.m.expiry)
             => (last'.res.err # ErrNil /\ ~last'.res.claims) ]_vars

\* An unaltered token was rejected as expired, by a manager with its secret,
\* exactly one window after its issue.
C13_Witness ==
    /\ last.op = "ValidateToken"
    /\ ~last.altered
    /\ last.vm.secretKey = last.m.secretKey
    /\ now = last.t + last.m.expiry
    /\ last.res.err = "token is expired"
    /\ ~last.res.claims

\* C14: a request that comes to the auth gate takes exactly one of three
\* paths.  To a public path: next is called once, no identity attached and
\* nothing written by the gate.  With "Bearer " and a valid token: next is
\* called once with the token's subject and role as identity, nothing written
\* by the gate.  Otherwise the gate writes 401 and next is never called.
\* While the handler runs, the count of calls stays one, the gate writes
\* nothing and the identity stays as attached.
C14_GatePaths ==
    [][ \A r \in GateSlots :
          LET x == reqs[r]
              y == reqs'[r] IN
          /\ (Gated(r) /\ x.method # "OPTIONS") =>
                IF x.path \in {"/healthz", "/api/v1/login"}
                THEN /\ y.stage = "mux"
                     /\ y.calls = 1 /\ y.gate = 0
                     /\ y.userID = "" /\ y.role = ""
                ELSE IF ValidBearer(x, now)
                THEN /\ y.stage = "mux"
                     /\ y.calls = 1 /\ y.gate = 0
                     /\ y.userID = x.auth.token.UserID
                     /\ y.role = x.auth.token.Role
                ELSE /\ y.stage = "done"
                     /\ y.calls = 0 /\ y.gate = 401
                     /\ y.status = 401 /\ y.kind = "text"
                     /\ y.userID = "" /\ y.role = ""
                     /\ y.handler = "none"
          /\ (Handled(r) \/ (x.stage = "mutate" /\ y.stage = "done")) =>
                /\ x.calls = 1 /\ x.gate = 0
                /\ y.calls = 1 /\ y.gate = 0
                /\ y.handler # "none"
                /\ y.userID = x.userID /\ y.role = x.role ]_vars

\* A login that carried a valid token of B was served without identity.
C14_Witness ==
    \E r \in GateSlots :
        /\ reqs[r].stage = "done"
        /\ reqs[r].path = LoginPath
        /\ reqs[r].method = "POST"
        /\ reqs[r].auth.prefix = "Bearer "
        /\ reqs[r].auth.token \in IssuedTokens
        /\ reqs[r].auth.token.UserID = "B"
        /\ now < reqs[r].auth.token.exp
        /\ reqs[r].calls = 1
        /\ reqs[r].userID = ""
        /\ reqs[r].status = 200

\* The step answers slot r's request in SpecHTTP.
Responds(r) == reqs[r].stage # "done" /\ reqs'[r].stage = "done"

\* C15: an authenticated DELETE, or PUT with a valid body, whose context is
\* live is answered by what the store holds when the handler answers: 404 when
\* the record is missing, also when a concurrent request removed it after the
\* handler's ownership lookup; 403 when another subject owns it; otherwise
\* 200 for PUT and 204 for DELETE.
C15_OneOfThreeOutcomes ==
    [][ \A r \in Reqs :
          LET y == reqs'[r] IN
          (Responds(r) /\ IsMutation(y) /\ WellFormed(y) /\ ~y.gone) =>
             y.status = IF y.id \notin DOMAIN comments THEN 404
                        ELSE IF comments[y.id].UserID # y.userID THEN 403
                        ELSE IF y.method = "PUT" THEN 200
                        ELSE 204 ]_vars

\* The body is a JSON object with content and author that pass validation.
ValidComment(b) ==
    /\ b.json
    /\ ~Blank(b.Content)
    /\ CharLen(b.Content) <= 1000
    /\ ~Blank(b.Author)

\* C16: a POST /api/v1/comments that passed the gate, with a valid body, its
\* context live, is answered 201 with a record that has the request's content
\* and author, a fresh non-empty id, the current time as creation time and
\* the token's subject as owner; the store gains exactly that record and
\* keeps every other.
C16_CreateAnswers201 ==
    [][ \A r \in GateSlots :
          LET x == reqs[r]
              y == reqs'[r] IN
          ( /\ Handled(r)
            /\ x.method = "POST" /\ x.path = CommentsPath
            /\ ValidComment(x.body)
            /\ ~x.gone )
          => ( /\ y.status = 201 /\ y.kind = "json"
               /\ y.val.Content = x.body.Content
               /\ y.val.Author = x.body.Author
               /\ y.val.ID # 0
               /\ y.val.ID \notin DOMAIN comments
               /\ y.val.ID \notin issued
               /\ y.val.CreatedAt = now
               /\ y.val.UserID = x.auth.token.UserID
               /\ DOMAIN comments' = DOMAIN comments \cup {y.val.ID}
               /\ comments'[y.val.ID] = y.val
               /\ \A id \in DOMAIN comments : comments'[id] = comments[id] ) ]_vars

\* B's POST was answered 201 with a record created at time 1, the second in
\* the store.
C16_Witness ==
    \E r \in GateSlots :
        /\ reqs[r].stage = "done"
        /\ reqs[r].method = "POST"
        /\ reqs[r].path = CommentsPath
        /\ reqs[r].status = 201
        /\ reqs[r].val.UserID = "B"
        /\ reqs[r].val.CreatedAt = 1
        /\ reqs[r].val.Content = "c2"
        /\ CountOf(comments) = 2
        /\ comments[reqs[r].val.ID] = reqs[r].val

\* C17: a POST /api/v1/comments that passed the gate, with empty content and
\* an author, is answered 400 with a JSON map from field to message that has an
\* entry for "content", and the store is unchanged.
C17_EmptyContentFieldMap ==
    [][ \A r \in GateSlots :
          LET x == reqs[r]
              y == reqs'[r] IN
          ( /\ Handled(r)
            /\ x.method = "POST" /\ x.path = CommentsPath
            /\ x.body.json
            /\ x.body.Content = ""
            /\ ~Blank(x.body.Author) )
          => ( /\ y.status = 400
               /\ y.kind = "json"
               /\ "content" \in y.problems
               /\ comments' = comments ) ]_vars

\* The body is a JSON object with a username and a password that are not
\* empty and not only white space.
FilledLogin(b) ==
    /\ b.json
    /\ ~Blank(b.Username)
    /\ ~Blank(b.Password)

\* C18: POST /api/v1/login with username "test" and password "test123" is
\* answered 200 with a token; with any other pair of filled-in username and
\* password it is answered 401 without a token; both whatever Authorization
\* header the request carries.
C18_LoginAnswers ==
    [][ \A r \in GateSlots :
          LET x == reqs[r]
              y == reqs'[r] IN
          ( /\ Handled(r)
            /\ x.method = "POST" /\ x.path = LoginPath
            /\ FilledLogin(x.body) )
          => IF x.body.Username = "test" /\ x.body.Password = "test123"
             THEN /\ y.status = 200 /\ y.kind = "json"
                  /\ y.token.parses
                  /\ y.token.UserID = "test"
                  /\ y.token.iat = now
             ELSE /\ y.status = 401
                  /\ y.token = NoToken ]_vars

\* A login without Authorization header got a token at time 1.
C18_Witness ==
    \E r \in GateSlots :
        /\ reqs[r].stage = "done"
        /\ reqs[r].path = LoginPath
        /\ reqs[r].auth = NoHeader
        /\ reqs[r].status = 200
        /\ reqs[r].token.parses
        /\ reqs[r].token.UserID = "test"
        /\ reqs[r].token.iat = 1

\* C19: POST /api/v1/login with an empty or whitespace-only username or
\* password is answered 400 with a JSON map from field to message that names
\* exactly the empty fields, and no token.
C19_EmptyLoginFieldMap ==
    [][ \A r \in GateSlots :
          LET x == reqs[r]
              y == reqs'[r] IN
          ( /\ Handled(r)
            /\ x.method = "POST" /\ x.path = LoginPath
            /\ x.body.json
            /\ ~FilledLogin(x.body) )
          => ( /\ y.status = 400
               /\ y.kind = "json"
               /\ y.problems =
                     (IF Blank(x.body.Username) THEN {"username"} ELSE {})
                     \cup (IF Blank(x.body.Password) THEN {"password"} ELSE {})
               /\ y.token = NoToken ) ]_vars

\* C20: a token a successful login returned is accepted by the gate on every
\* request to a path that is not public made less than 24 hours (two units)
\* after its issue: next is called with subject "test" and role "user" as
\* identity; and the expires_in of the login response is the token's validity
\* window in seconds, 86400.
C20_LoginTokenAccepted ==
    [][ /\ \A r \in GateSlots :
             LET x == reqs[r]
                 y == reqs'[r] IN
             ( /\ Gated(r)
               /\ last.token.parses
               /\ x.auth = [prefix |-> "Bearer ", token |-> last.token]
               /\ x.path \notin {"/healthz", "/api/v1/login"}
               /\ last.token.iat <= now
               /\ now < last.token.iat + 2 )
             => ( /\ y.stage = "mux"
                  /\ y.calls = 1 /\ y.gate = 0
                  /\ y.status # 401
                  /\ y.userID = "test"
                  /\ y.role = "user" )
        /\ last'.token.parses
           => ( /\ last'.expiresIn = 86400
                /\ last'.expiresIn
                      = (last'.token.exp - last'.token.iat) * SecondsPerUnit ) ]_vars

\* The token of a login at time 0 was used half a day later to create a
\* comment, which belongs to "test".
C20_Witness ==
    \E r \in GateSlots :
        /\ last.token.parses
        /\ last.token.iat = 0
        /\ now = 1
        /\ reqs[r].stage = "done"
        /\ reqs[r].auth.token = last.token
        /\ reqs[r].method = "POST"
        /\ reqs[r].path = CommentsPath
        /\ reqs[r].status = 201
        /\ reqs[r].val.UserID = "test"
        /\ reqs[r].val.CreatedAt = 1

\* C5: Update(id, draft) keeps the ID, CreatedAt and UserID of the stored
\* record, in the map and in the record returned, whatever the draft carries;
\* no step changes these fields of a record that stays in the store.
C5_UpdateKeepsIdentity ==
    [][ /\ (Called /\ last'.op = "Update" /\ last'.err = ErrNil) =>
              /\ last'.id \in DOMAIN comments
              /\ Identity(comments'[last'.id]) = Identity(comments[last'.id])
              /\ Identity(last'.val) = Identity(comments[last'.id])
        /\ \A id \in (DOMAIN comments) \cap (DOMAIN comments') :
              Identity(comments'[id]) = Identity(comments[id]) ]_vars

C5_Witness ==
    /\ last.op = "Update"
    /\ last.err = ErrNil
    /\ last.draft.ID # last.val.ID
    /\ last.draft.CreatedAt # last.val.CreatedAt
    /\ last.draft.UserID # last.val.UserID
    /\ last.val.Content = last.draft.Content

\* C6: a Get of the identifier Create has just returned succeeds and returns
\* a record equal to the one Create returned, in every field.
C6_GetAfterCreate ==
    [][ ( /\ last.op = "Create" /\ last.err = ErrNil
          /\ Called /\ last'.op = "Get" /\ ~last'.cancelled
          /\ last'.id = last.val.ID )
        => (last'.err = ErrNil /\ last'.val = last.val) ]_vars

C6_Witness ==
    /\ last.op = "Get"
    /\ last.err = ErrNil
    /\ last.val.CreatedAt = now
    /\ now > 0

\* C7: Delete of an identifier in the store succeeds and removes it; a Get or
\* a second Delete of it right after returns ErrNotFound; an identifier
\* issued and no longer in the store never comes back.
C7_DeleteThenNotFound ==
    [][ /\ ( /\ Called /\ last'.op = "Delete" /\ ~last'.cancelled
             /\ last'.id \in DOMAIN comments )
           => (last'.err = ErrNil /\ last'.id \notin DOMAIN comments')
        /\ ( /\ last.op = "Delete" /\ last.err = ErrNil
             /\ Called /\ last'.op \in {"Get", "Delete"} /\ ~last'.cancelled
             /\ last'.id = last.id )
           => last'.err = ErrNotFound
        /\ \A id \in issued \ DOMAIN comments : id \notin DOMAIN comments' ]_vars

C7_Witness ==
    /\ last.op = "Delete"
    /\ last.err = ErrNotFound
    /\ last.id \in issued

\* The goroutines inside a writer's and inside a reader's critical section.
WritersInside == {p \in Procs : Inside(p) /\ procs[p].call.op \in Writers}
ReadersInside == {p \in Procs : Inside(p) /\ procs[p].call.op \in Readers}

\* C8: at most one writer is inside its critical section, and while a writer
\* is inside no reader is.
C8_LockExclusion ==
    /\ Cardinality(WritersInside) <= 1
    /\ WritersInside # {} => ReadersInside = {}

\* A writer is inside while a reader that arrived is kept out.
C8_Witness ==
    \E p, q \in Procs :
        /\ p \in WritersInside
        /\ procs[p].pc = "loop"
        /\ procs[q].pc = "rblocked"

\* Two readers are inside at the same time.
ReadersShare == Cardinality(ReadersInside) = 2

\* C9: the sequence a List returns is the whole map as one completed write
\* left it: for every concurrent write it shows all of the write or none.
C9_ListSeesWholeWrites ==
    \A p \in Procs :
        ( /\ procs[p].pc \in {"release", "done"}
          /\ procs[p].call.op = "List"
          /\ procs[p].call.err = ErrNil )
        => procs[p].call.list \in ListResults(procs[p].seen)

\* A List has read two records while DeleteByUser, which will remove both,
\* waits for it to leave.
C9_Witness ==
    \E p, q \in Procs :
        /\ procs[p].pc = "release"
        /\ procs[p].call.op = "List"
        /\ Len(procs[p].call.list) = 2
        /\ procs[q].pc = "drain"
        /\ procs[q].call.op = "DeleteByUser"
        /\ Cardinality(ByUserKeys(comments, "A")) = 2

\* C10: a store method called with a context already cancelled returns the
\* context's error with a zero result and leaves the map as it was.
C10_CancelledIsNoOp ==
    [][ (Called /\ last'.cancelled) =>
          /\ last'.err = ErrCanceled
          /\ last'.val = ZeroComment
          /\ last'.list = <<>>
          /\ last'.n = 0
          /\ comments' = comments ]_vars

C10_Witness ==
    /\ last.cancelled
    /\ last.op = "DeleteByUser"
    /\ ByUserKeys(comments, last.userID) # {}

\* C22: every record in the store has a non-empty identifier and a non-empty
\* owner identity, whatever draft Create was called with.
C22_RecordsHaveIdAndOwner ==
    \A id \in DOMAIN comments :
        /\ comments[id].ID # 0
        /\ comments[id].UserID # ""

\* C23: only Create assigns an identifier: a successful Create returns one that
\* no earlier Create returned (deleted since or not), adds the record under it
\* and leaves every record of the store as it was; no other call adds a key,
\* and every record is stored under its own identifier.
C23_IdentifierOnlyByCreate ==
    [][ /\ (Called /\ last'.op = "Create" /\ last'.err = ErrNil) =>
              /\ last'.val.ID \notin issued
              /\ last'.val.ID \notin DOMAIN comments
              /\ issued' = issued \cup {last'.val.ID}
              /\ DOMAIN comments' = DOMAIN comments \cup {last'.val.ID}
              /\ \A id \in DOMAIN comments : comments'[id] = comments[id]
        /\ ~(Called /\ last'.op = "Create" /\ last'.err = ErrNil) =>
              /\ issued' = issued
              /\ DOMAIN comments' \subseteq DOMAIN comments
        /\ \A id \in DOMAIN comments' : comments'[id].ID = id ]_vars

\* A Create returned a new identifier after the record of an earlier Create
\* had been deleted.
C23_Witness ==
    /\ last.op = "Create"
    /\ last.err = ErrNil
    /\ issued \ DOMAIN comments # {}
    /\ last.val.ID \in DOMAIN comments

\* C27: Create with a live context returns no error, for every draft and every
\* state of the store, and the record it returns is in the store; the only
\* error Create returns is the cancellation error of its context.
C27_CreateFailsOnlyCancelled ==
    [][ (Called /\ last'.step = "call" /\ last'.op = "Create") =>
          IF last'.cancelled
          THEN last'.err = ErrCanceled
          ELSE /\ last'.err = ErrNil
               /\ last'.val.ID \in DOMAIN comments'
               /\ comments'[last'.val.ID] = last'.val
               /\ last'.val.Content = last'.draft.Content ]_vars

\* Create of the zero-value draft succeeded on a store that holds a record.
C27_Witness ==
    /\ last.step = "call"
    /\ last.op = "Create"
    /\ ~last.cancelled
    /\ last.err = ErrNil
    /\ last.draft = ZeroComment
    /\ CountOf(comments) = 2

\* C24: Valid accepts a request exactly when its content is not empty or
\* white space only, has at most 1000 characters, and its author is not empty
\* or white space only; content of 1001 characters is rejected with a problem
\* for "content".
C24_AcceptsUpTo1000 ==
    last.op = "Valid" =>
        /\ last.problems = {}
            <=> ( /\ ~Blank(last.req.Content)
                  /\ CharLen(last.req.Content) <= 1000
                  /\ ~Blank(last.req.Author) )
        /\ CharLen(last.req.Content) = 1001 => "content" \in last.problems

\* The records in a sequence.
Elements(l) == { l[i] : i \in 1..Len(l) }

\* C21: an authenticated GET /api/v1/comments whose context is live is
\* answered 200 with the records the store holds at that moment: every record
\* created and not deleted is in the response with its fields, nothing else
\* is, no record is there twice, and the store is left as it was.
C21_ListAnswersStore ==
    [][ \A r \in GateSlots :
          LET x == reqs[r]
              y == reqs'[r] IN
          ( /\ Handled(r)
            /\ x.method = "GET" /\ x.path = CommentsPath
            /\ ~x.gone )
          => ( /\ y.status = 200 /\ y.kind = "json"
               /\ Elements(y.list) = { comments[id] : id \in DOMAIN comments }
               /\ Len(y.list) = Cardinality(DOMAIN comments)
               /\ \A i, j \in 1..Len(y.list) :
                     y.list[i].ID = y.list[j].ID => i = j
               /\ comments' = comments ) ]_vars

\* B's GET was answered with two records, A's and B's own.
C21_Witness ==
    \E r \in GateSlots :
        /\ reqs[r].stage = "done"
        /\ reqs[r].method = "GET"
        /\ reqs[r].path = CommentsPath
        /\ reqs[r].status = 200
        /\ reqs[r].userID = "B"
        /\ Len(reqs[r].list) = 2
        /\ { reqs[r].list[i].UserID : i \in 1..2 } = {"A", "B"}

\* C28: when the store call of a handler fails because the request's context
\* is cancelled, the handler answers 500 with a text body, has made that call
\* once, and the step changes neither the store nor any other request.
C28_CancelledAnswers500 ==
    [][ \A r \in Reqs :
          LET y == reqs'[r] IN
          (Responds(r) /\ y.gone /\ y.ops > 0) =>
             /\ y.status = 500
             /\ y.kind = "text"
             /\ y.ops = reqs[r].ops + 1
             /\ comments' = comments
             /\ issued' = issued
             /\ \A q \in Reqs \ {r} : reqs'[q] = reqs[q] ]_vars

\* A POST whose client had gone was answered 500 at time 0, and a POST that
\* arrived at time 1 was answered 201 with its record.
C28_Witness ==
    \E r, q \in Reqs :
        /\ reqs[r].stage = "done"
        /\ reqs[r].method = "POST"
        /\ reqs[r].gone
        /\ reqs[r].status = 500
        /\ reqs[r].auth.token.iat = 0
        /\ reqs[q].stage = "done"
        /\ reqs[q].method = "POST"
        /\ reqs[q].auth.token.iat = 1
        /\ reqs[q].status = 201
        /\ reqs[q].val.ID \in DOMAIN comments

\* C30: a request to /healthz or /api/v1/login that comes to the gate is
\* handed to its handler whatever its Authorization header; GET /healthz is
\* answered 200 with status "ok" and the time; serving either path calls no
\* store method and leaves the store as it was.
C30_PublicPaths ==
    [][ \A r \in GateSlots :
          LET x == reqs[r]
              y == reqs'[r] IN
          /\ ( /\ Gated(r)
               /\ x.method # "OPTIONS"
               /\ x.path \in {"/healthz", "/api/v1/login"} )
             => ( /\ y.stage = "mux"
                  /\ y.calls = 1
                  /\ y.gate = 0
                  /\ y.ops = 0
                  /\ comments' = comments
                  /\ issued' = issued )
          /\ ( /\ Handled(r)
               /\ x.path \in {"/healthz", "/api/v1/login"} )
             => ( /\ y.stage = "done"
                  /\ y.handler = IF x.path = "/healthz" THEN "healthz" ELSE "login"
                  /\ y.ops = 0
                  /\ comments' = comments
                  /\ issued' = issued
                  /\ (x.method = "GET" /\ x.path = "/healthz")
                     => ( /\ y.status = 200 /\ y.kind = "json"
                          /\ y.health.status = "ok"
                          /\ y.health.time = FormatRFC3339(now)
                          /\ y.health.time # "" ) ) ]_vars

\* GET /healthz with an expired token of A was answered at time 1, the store
\* holding a record.
C30_Witness ==
    \E r \in GateSlots :
        /\ reqs[r].stage = "done"
        /\ reqs[r].method = "GET"
        /\ reqs[r].path = HealthPath
        /\ reqs[r].auth.prefix = "Bearer "
        /\ reqs[r].auth.token \in IssuedTokens
        /\ reqs[r].auth.token.exp <= now
        /\ reqs[r].status = 200
        /\ reqs[r].health.time = "1970-01-01T12:00:00Z"
        /\ CountOf(comments) = 1

\* Goroutine p holds the store's lock, for writing or for reading.
Holds(p) == mu.w = p \/ p \in mu.readers

\* C25: under fair scheduling every call of a store method returns, and it
\* returns by releasing the lock it had acquired, on every return path; a
\* goroutine that is not inside a method holds no lock; while a call is under
\* way some call can take a step (no deadlock); so a writer that waits for the
\* lock gets it although readers keep calling.
C25_CallsReturn ==
    /\ \A p \in Procs : (procs[p].pc = "acquire") ~> (procs[p].pc = "done")
    /\ [][ \A p \in Procs :
             (procs[p].pc # "done" /\ procs'[p].pc = "done")
             => (Holds(p) /\ ~Holds(p)') ]_vars
    /\ [](\A p \in Procs :
            procs[p].pc \in {"idle", "acquire", "rblocked", "done"} => ~Holds(p))
    /\ []((\E p \in Procs : procs[p].pc \notin {"idle", "done"})
            => ENABLED <<\E p \in Procs : Lock(p) \/ Run(p)>>_vars)

\* A writer has announced itself and waits for a reader to leave.
C25_Witness ==
    \E p, q \in Procs :
        /\ procs[p].pc = "drain"
        /\ procs[p].call.op = "Delete"
        /\ q \in mu.readers
        /\ procs[q].call.op = "List"
        /\ CountOf(comments) > 0

\* The record the caller holds, read where it is held.
HeldRecord(h, cs) == ReadAt(cs, h.cells, h.ref)

\* The slice the caller holds, each element read where it is held.
HeldSlice(h, cs) == [i \in DOMAIN h.elems |-> ReadAt(cs, h.cells, h.elems[i])]


\* Another caller has updated a record of which this caller holds copies from
\* Get and from List; the copies are as they were returned.
C26_WitnessWrite ==
    /\ last.step = "write"
    /\ last.op = "List"
    /\ Len(last.list) = 2
    /\ last.ref # NoPlace
    /\ HeldSlice(last, comments) = last.list
    /\ \E i \in 1..2 :
          /\ last.list[i].ID \in DOMAIN comments
          /\ comments[last.list[i].ID] # last.list[i]
          /\ HeldRecord(last, comments) = last.list[i]

\* C29: when JWT_SECRET is not set or empty, Load returns an error and a nil
\* configuration, and Run returns that error with no store created and no
\* listener opened; otherwise Load succeeds with the secret of the
\* environment, Environment "development" when ENVIRONMENT is not set or
\* empty, and DatabaseURL "memory://" when DATABASE_URL is not set or empty.
C29_LoadRequiresSecret ==
    last.pc # "start" =>
        IF "JWT_SECRET" \notin DOMAIN last.env \/ last.env["JWT_SECRET"] = ""
        THEN /\ last.loaded.isNil
             /\ last.loaded.err = "JWT_SECRET is required"
             /\ last.pc = "returned"
             /\ last.err = "loading config: JWT_SECRET is required"
             /\ ~last.store
             /\ ~last.listener
        ELSE /\ ~last.loaded.isNil
             /\ last.loaded.err = ErrNil
             /\ last.loaded.cfg.JWTSecret = last.env["JWT_SECRET"]
             /\ last.loaded.cfg.Environment =
                   IF "ENVIRONMENT" \notin DOMAIN last.env \/ last.env["ENVIRONMENT"] = ""
                   THEN "development" ELSE last.env["ENVIRONMENT"]
             /\ last.loaded.cfg.DatabaseURL =
                   IF "DATABASE_URL" \notin DOMAIN last.env \/ last.env["DATABASE_URL"] = ""
                   THEN "memory://" ELSE last.env["DATABASE_URL"]

\* Run has returned the configuration error for an environment that sets
\* JWT_SECRET to the empty string and the other two variables to values.
C29_Witness ==
    /\ last.pc = "returned"
    /\ DOMAIN last.env = EnvNames
    /\ last.env["JWT_SECRET"] = ""
    /\ last.env["ENVIRONMENT"] = "test"
    /\ last.loaded.isNil
    /\ last.err = "loading config: JWT_SECRET is required"
    /\ ~last.store

\* The records of userID in the map.
OwnedBy(cs, userID) == {cs[k] : k \in {j \in DOMAIN cs : cs[j].UserID = userID}}

\* C31: ListByUser(u) with a live context returns exactly the records whose
\* UserID is u, each once, and leaves the store as it was; DeleteByUser(u)
\* removes exactly the records whose UserID is u, leaves every other record
\* as it was, and returns no error, also when u owns no record.
C31_ByUserExact ==
    [][ /\ (Called /\ last'.op = "ListByUser" /\ ~last'.cancelled) =>
              /\ last'.err = ErrNil
              /\ Elements(last'.list) = OwnedBy(comments, last'.userID)
              /\ Len(last'.list) = Cardinality(OwnedBy(comments, last'.userID))
              /\ comments' = comments
        /\ (Called /\ last'.op = "DeleteByUser" /\ ~last'.cancelled) =>
              /\ last'.err = ErrNil
              /\ \A k \in DOMAIN comments :
                    IF comments[k].UserID = last'.userID
                    THEN k \notin DOMAIN comments'
                    ELSE k \in DOMAIN comments' /\ comments'[k] = comments[k]
              /\ DOMAIN comments' \subseteq DOMAIN comments ]_vars

\* ListByUser returned one of the two records of the store: the one of its
\* owner, and not the other owner's.
C31_Witness ==
    /\ last.op = "ListByUser"
    /\ last.err = ErrNil
    /\ Len(last.list) = 1
    /\ CountOf(comments) = 2
    /\ last.list[1].UserID = last.userID

\* DeleteByUser of an owner without records returned no error and left the
\* other owner's record in the store.
DeleteByUserOfNone ==
    /\ last.op = "DeleteByUser"
    /\ last.err = ErrNil
    /\ ~last.cancelled
    /\ CountOf(comments) = 1
    /\ issued = DOMAIN comments
    /\ \A k \in DOMAIN comments : comments[k].UserID # last.userID

\* C32: DeleteOlderThan(age), called at time now with a live context, removes
\* exactly the records whose CreatedAt is strictly before now - age and leaves
\* every other record as it was: a record created at now - age is kept, and
\* with age 0 a record created before the call is removed.
C32_StrictCutoff ==
    [][ (Called /\ last'.op = "DeleteOlderThan" /\ ~last'.cancelled) =>
          /\ last'.err = ErrNil
          /\ \A k \in DOMAIN comments :
                IF comments[k].CreatedAt < now - last'.age
                THEN k \notin DOMAIN comments'
                ELSE k \in DOMAIN comments' /\ comments'[k] = comments[k]
          /\ DOMAIN comments' \subseteq DOMAIN comments
          /\ \A k \in DOMAIN comments :
                /\ comments[k].CreatedAt = now - last'.age => k \in DOMAIN comments'
                /\ (last'.age = 0 /\ comments[k].CreatedAt < now)
                      => k \notin DOMAIN comments' ]_vars

\* DeleteOlderThan(1) ran after a record was created at the present instant
\* (so it ran at this instant) and kept the record created one unit earlier,
\* exactly at the cutoff.
C32_Witness ==
    /\ last.op = "DeleteOlderThan"
    /\ last.err = ErrNil
    /\ last.age = 1
    /\ \E k \in DOMAIN comments : comments[k].CreatedAt = now
    /\ \E k \in DOMAIN comments : comments[k].CreatedAt = now - last.age

\* DeleteOlderThan(0) removed a record created before the call.
RemovedWithAgeZero ==
    /\ last.op = "DeleteOlderThan"
    /\ last.err = ErrNil
    /\ last.age = 0
    /\ issued # {}
    /\ comments = EmptyMap

\* C33: Update(id, draft) and Delete(id) with a live context on an id that is
\* not in the store return ErrNotFound and leave the store as it was: no
\* record is added under id and no other record is changed or removed.
C33_MissingIdNotFound ==
    [][ ( /\ Called /\ last'.op \in {"Update", "Delete"} /\ ~last'.cancelled
          /\ last'.id \notin DOMAIN comments )
        => /\ last'.err = ErrNotFound
           /\ last'.val = ZeroComment
           /\ comments' = comments ]_vars

\* Update of an identifier never issued returned ErrNotFound on a store that
\* holds another record.
C33_Witness ==
    /\ last.op = "Update"
    /\ last.err = ErrNotFound
    /\ last.id \notin issued
    /\ CountOf(comments) = 1

\* The fields of a record that Update takes from the draft.
Payload(c) == <<c.Content, c.Author>>

\* Goroutines p and q have both returned from a successful Update of one id.
BothUpdated(p, q) ==
    /\ p # q
    /\ procs[p].pc = "done" /\ procs[q].pc = "done"
    /\ procs[p].call.op = "Update" /\ procs[q].call.op = "Update"
    /\ procs[p].call.id = procs[q].call.id
    /\ procs[p].call.err = ErrNil /\ procs[q].call.err = ErrNil

\* C34: when two Updates of the same existing id with drafts d1 and d2 run
\* concurrently, the record stored afterwards has the Content and Author of d1
\* or those of d2, as a pair, and each call returns the record it stored: the
\* stored record is the one the later call returned.
C34_ConcurrentUpdatesWhole ==
    /\ \A p \in Procs :
         ( /\ procs[p].pc \in {"release", "done"}
           /\ procs[p].call.op = "Update"
           /\ procs[p].call.err = ErrNil )
         => /\ Payload(procs[p].call.val) = Payload(procs[p].call.draft)
            /\ procs[p].call.val.ID = procs[p].call.id
    /\ \A p, q \in Procs :
         BothUpdated(p, q) =>
            /\ procs[p].call.id \in DOMAIN comments
            /\ Payload(comments[procs[p].call.id])
                  \in {Payload(procs[p].call.draft), Payload(procs[q].call.draft)}
            /\ comments[procs[p].call.id] \in {procs[p].call.val, procs[q].call.val}
            /\ Identity(procs[p].call.val) = Identity(procs[q].call.val)

\* Two Updates of one record with different drafts have both returned; the
\* record has the content and author of one of them, which differ from the
\* other's in both fields.
C34_Witness ==
    \E p, q \in Procs :
        /\ BothUpdated(p, q)
        /\ procs[p].call.draft.Content # procs[q].call.draft.Content
        /\ procs[p].call.draft.Author # procs[q].call.draft.Author
        /\ comments[procs[p].call.id] = procs[p].call.val
        /\ comments[procs[p].call.id] # procs[q].call.val

\* C35: the CORS middleware runs before the auth gate: an OPTIONS request to
\* any path, with or without an Authorization header, is answered 200 by the
\* CORS middleware with no body; the auth gate neither rejects it nor passes
\* it on, no handler runs, no store method is called and the store is as it
\* was.
C35_OptionsAnsweredByCORS ==
    [][ \A r \in GateSlots :
          (Gated(r) /\ reqs[r].method = "OPTIONS") =>
             /\ reqs'[r].stage = "done"
             /\ reqs'[r].status = 200
             /\ reqs'[r].kind = "none"
             /\ reqs'[r].gate = 0
             /\ reqs'[r].calls = 0
             /\ reqs'[r].userID = ""
             /\ reqs'[r].handler = "none"
             /\ reqs'[r].ops = 0
             /\ comments' = comments
             /\ issued' = issued ]_vars

\* An OPTIONS request on a stored record, carrying a token that is not valid,
\* was answered 200 and not 401.
C35_Witness ==
    \E r \in GateSlots :
        /\ reqs[r].stage = "done"
        /\ reqs[r].method = "OPTIONS"
        /\ reqs[r].path = ItemPath
        /\ reqs[r].id \in DOMAIN comments
        /\ reqs[r].auth.prefix = "Bearer "
        /\ reqs[r].auth.token = ForgedToken
        /\ reqs[r].status = 200
        /\ reqs[r].calls = 0

\* An OPTIONS request to a public path was answered by the CORS middleware,
\* not by the path's handler.
OptionsOnHealth ==
    \E r \in GateSlots :
        /\ reqs[r].stage = "done"
        /\ reqs[r].method = "OPTIONS"
        /\ reqs[r].path = HealthPath
        /\ reqs[r].status = 200
        /\ reqs[r].handler = "none"
        /\ reqs[r].health.status = ""

\* The step is the first step of the handler of a PUT of one comment in slot
\* r: the handler runs up to and including its first store call.
PutArrives(r) ==
    /\ reqs[r].stage = "mux"
    /\ StepOf(r)
    /\ reqs'[r].method = "PUT"
    /\ reqs'[r].path = ItemPath

\* C36: the PUT handler validates the body, then looks the record up, then
\* tests ownership, then updates: a PUT with an invalid body is answered 400
\* without any store call, also when the id is missing or the record is
\* another subject's; a PUT with a valid body on a missing id is answered 404
\* (its context being live); Update is called only as the second store call
\* of a request whose lookup returned a record owned by the requester.
C36_PutOrder ==
    [][ \A r \in Reqs :
          LET y == reqs'[r] IN
          /\ (PutArrives(r) /\ ~ValidComment(y.body)) =>
                /\ y.stage = "done"
                /\ y.status = 400
                /\ y.ops = 0
                /\ comments' = comments
          /\ (PutArrives(r) /\ ValidComment(y.body) /\ ~y.gone
                /\ y.id \notin DOMAIN comments) =>
                /\ y.stage = "done"
                /\ y.status = 404
                /\ y.ops = 1
                /\ comments' = comments
          /\ (PutArrives(r) /\ y.stage = "mutate") =>
                /\ ValidComment(y.body)
                /\ y.ops = 1
                /\ y.id \in DOMAIN comments
                /\ comments[y.id].UserID = y.userID
                /\ comments' = comments
          /\ (PutArrives(r) /\ y.stage = "done") => y.ops <= 1
          /\ (StepOf(r) /\ y.method = "PUT" /\ y.path = ItemPath /\ y.ops = 2) =>
                /\ reqs[r].stage = "mutate"
                /\ reqs[r].ops = 1
                /\ ValidComment(y.body) ]_vars

\* A PUT with an invalid body on another subject's record was answered 400
\* with no store call, while a PUT of the owner, past its lookup, is about to
\* call Update.
C36_Witness ==
    \E r, q \in Reqs :
        /\ reqs[r].stage = "done"
        /\ reqs[r].method = "PUT"
        /\ reqs[r].path = ItemPath
        /\ ~ValidComment(reqs[r].body)
        /\ reqs[r].status = 400
        /\ reqs[r].ops = 0
        /\ reqs[r].id \in DOMAIN comments
        /\ comments[reqs[r].id].UserID # reqs[r].userID
        /\ reqs[q].stage = "mutate"
        /\ reqs[q].method = "PUT"
        /\ reqs[q].id = reqs[r].id

\* A PUT with an invalid body on a missing id was answered 400, not 404.
InvalidPutOnMissing ==
    \E r \in Reqs :
        /\ reqs[r].stage = "done"
        /\ reqs[r].method = "PUT"
        /\ reqs[r].path = ItemPath
        /\ reqs[r].status = 400
        /\ reqs[r].id \notin issued

\* A PUT with a valid body on a missing id was answered 404.
ValidPutOnMissing ==
    \E r \in Reqs :
        /\ reqs[r].stage = "done"
        /\ reqs[r].method = "PUT"
        /\ reqs[r].path = ItemPath
        /\ ValidComment(reqs[r].body)
        /\ reqs[r].status = 404
        /\ reqs[r].ops = 1

\* C37: every record is stored under its own identifier, and between calls
\* Count() equals the number of records List() returns, which equals the
\* number of successful Creates minus the number of records removed by Delete,
\* DeleteByUser and DeleteOlderThan.
C37_KeysAndCount ==
    /\ \A k \in DOMAIN comments : comments[k].ID = k
    /\ CountOf(comments) = last.creates - last.removed
    /\ \A l \in ListResults(comments) : Len(l) = CountOf(comments)
    /\ (last.op = "Count" /\ last.err = ErrNil) =>
          last.n = last.creates - last.removed
    /\ (last.op = "List" /\ last.err = ErrNil) =>
          Len(last.list) = last.creates - last.removed

\* Count returned 1 after two Creates and one removal.
C37_Witness ==
    /\ last.op = "Count"
    /\ last.err = ErrNil
    /\ last.creates = 2
    /\ last.removed = 1
    /\ last.n = 1

\* List returned nothing after two Creates, both records removed since.
ListAfterAllRemoved ==
    /\ last.op = "List"
    /\ last.err = ErrNil
    /\ last.creates = 2
    /\ last.removed = 2
    /\ last.list = <<>>

\* Run returns in this step, with its listener open.
RunReturns == last.listener /\ last.pc # "returned" /\ last'.pc = "returned"

\* Run returns an error the serving goroutine sent on errChan.
ReturnsServeError ==
    /\ last.errChan.buf # <<>>
    /\ last'.err \in { Head(last.errChan.buf),
                       "server failed before becoming ready: " \o Head(last.errChan.buf) }

\* Run returns from Shutdown, called after the context was cancelled.
ReturnsAfterShutdown ==
    /\ last.ctxDone
    /\ last.stopped
    /\ last'.err \in {ErrNil, ShutdownError}

\* Once the context is cancelled Run returns.
CancelledRunReturns == last.ctxDone ~> (last.pc = "returned")

\* The serving goroutine does not stay at its send on errChan.
ServeNeverBlocked == (last.serve = "send") ~> (last.serve # "send")

\* C38: Run, once its listener is open, returns only because the serving
\* goroutine reported a serve error, which Run returns, or because the context
\* was cancelled, after which Run calls Shutdown and returns nil or the
\* shutdown error; after the context is cancelled Run eventually returns; and
\* the serving goroutine never blocks forever on its error channel.
C38_RunReturnsTwoWays ==
    /\ [][ RunReturns => (ReturnsServeError \/ ReturnsAfterShutdown) ]_vars
    /\ CancelledRunReturns
    /\ ServeNeverBlocked

\* Run returns with its listener open by the serve error or after Shutdown,
\* or from its wait for readiness when the timer of line 85 fires first.
RunReturnsThreeWays ==
    [][ RunReturns =>
          \/ ReturnsServeError
          \/ ReturnsAfterShutdown
          \/ /\ last.pc = "waitReady"
             /\ last'.via = "timeout"
             /\ last'.err = "timeout waiting for server to become ready" ]_vars

\* Run has returned the timeout error while the goroutine it started is
\* serving on the open listener, and Shutdown was never called.
RunLeftServing ==
    /\ last.pc = "returned"
    /\ last.via = "timeout"
    /\ last.listener
    /\ last.serve = "serving"
    /\ ~last.stopped
====
